---- MODULE Spec2Model ----
(***************************************************************************)
(* Repair-Fix-assistant backend: the agent graph (app/services/agent.py,   *)
(* app/services/nodes/*.py), the catalog wrapper                           *)
(* (app/services/ifixit_tools.py), the context budgeter                    *)
(* (app/core/context.py, app/core/tokens.py) and the SSE generator         *)
(* stream_agent_response (app/main.py).                                    *)
(*                                                                         *)
(* A Python str is a sequence of one-character strings, so that strip,     *)
(* split, lower and the substring tests of the code are computed and not   *)
(* assumed.  None is the empty tuple and a present value v is <<v>>.       *)
(***************************************************************************)
EXTENDS Integers, Sequences, FiniteSets, TLC

VARIABLES
    state,          \* the AgentState dict threaded through the graph
    node,           \* graph position: the node astream runs next
    visited,        \* nodes invoked so far, in order
    pc,             \* position of the generator stream_agent_response
    final_state,    \* main.py:352, the last node output seen
    events,         \* SSE events yielded to the caller so far
    word_i,         \* main.py:411, words of the answer already streamed
    db_messages,    \* rows of the messages table for the session
    trim_in,        \* argument record of a direct call of trim_conversation_history
    trim_once,      \* its result
    trim_twice,     \* the result of trimming that result again
    message,        \* the request text
    db_usage,       \* rows of the usage_stats table
    tokenizer_ok,   \* whether tiktoken.get_encoding succeeds in this process
    route_out,      \* result of a direct call of should_use_fallback
    runs,           \* the requests served side by side by one process, each with its own AgentState
    _ifixit_tools,  \* ifixit_tools.py:371, the module-level catalog wrapper
    chat_sessions   \* the row of the session in the chat_sessions table

vars == <<message, state, node, visited, pc, final_state, events, word_i, db_messages,
          db_usage, trim_in, trim_once, trim_twice, tokenizer_ok, route_out,
          runs, _ifixit_tools, chat_sessions>>

None == <<>>
Some(v) == <<v>>
IsNone(o) == o = <<>>
Get(o) == o[1]

-----------------------------------------------------------------------------
(* Python str operations *)

Space == {" ", "\n", "\t"}

UpperCase == <<"A","B","C","D","E","F","G","H","I","J","K","L","M","N","O","P","Q","R","S","T","U","V","W","X","Y","Z">>
LowerCase == <<"a","b","c","d","e","f","g","h","i","j","k","l","m","n","o","p","q","r","s","t","u","v","w","x","y","z">>

LowerChar(c) ==
    IF \E i \in 1..Len(UpperCase) : UpperCase[i] = c
    THEN LowerCase[CHOOSE i \in 1..Len(UpperCase) : UpperCase[i] = c]
    ELSE c

\* str.lower()
Lower(t) == [i \in 1..Len(t) |-> LowerChar(t[i])]

\* the index of the first character of t that is not a space, Len(t) + 1 if none
FirstNonSpace(t) ==
    IF \A i \in 1..Len(t) : t[i] \in Space THEN Len(t) + 1
    ELSE CHOOSE i \in 1..Len(t) : t[i] \notin Space /\ \A j \in 1..(i - 1) : t[j] \in Space

\* the index of the last character of t that is not a space, 0 if none
LastNonSpace(t) ==
    IF \A i \in 1..Len(t) : t[i] \in Space THEN 0
    ELSE CHOOSE i \in 1..Len(t) : t[i] \notin Space /\ \A j \in (i + 1)..Len(t) : t[j] \in Space

\* str.lstrip()
LStrip(t) == SubSeq(t, FirstNonSpace(t), Len(t))

\* str.strip()
Strip(t) == SubSeq(t, FirstNonSpace(t), LastNonSpace(t))

\* the length of the run of non-space characters that t starts with
FirstWordLen(t) ==
    IF \A i \in 1..Len(t) : t[i] \notin Space THEN Len(t)
    ELSE (CHOOSE i \in 1..Len(t) : t[i] \in Space /\ \A j \in 1..(i - 1) : t[j] \notin Space) - 1

\* str.split(): the maximal runs of non-space characters
RECURSIVE Split(_)
Split(t) ==
    LET s == LStrip(t)
        n == FirstWordLen(s)
    IN  IF s = <<>> THEN <<>>
        ELSE <<SubSeq(s, 1, n)>> \o Split(SubSeq(s, n + 1, Len(s)))

\* sub in t
Contains(sub, t) ==
    \E i \in 0..(Len(t) - Len(sub)) : SubSeq(t, i + 1, i + Len(sub)) = sub

\* t.endswith(suffix)
EndsWith(t, suffix) ==
    /\ Len(suffix) <= Len(t)
    /\ SubSeq(t, Len(t) - Len(suffix) + 1, Len(t)) = suffix

\* t.replace(old, new) for a non-empty old: every occurrence, left to right
RECURSIVE Replace(_, _, _)
Replace(t, old, new) ==
    IF Len(t) < Len(old) THEN t
    ELSE IF SubSeq(t, 1, Len(old)) = old
         THEN new \o Replace(SubSeq(t, Len(old) + 1, Len(t)), old, new)
         ELSE <<Head(t)>> \o Replace(Tail(t), old, new)

\* " ".join(texts)
RECURSIVE Join(_)
Join(texts) ==
    IF texts = <<>> THEN <<>>
    ELSE IF Len(texts) = 1 THEN texts[1]
    ELSE texts[1] \o <<" ">> \o Join(Tail(texts))

Digits == <<"0","1","2","3","4","5","6","7","8","9">>

\* str(n) for n >= 0
RECURSIVE ToStr(_)
ToStr(n) == IF n < 10 THEN <<Digits[n + 1]>> ELSE ToStr(n \div 10) \o <<Digits[(n % 10) + 1]>>

\* s[start:] with Python's index rules (a negative start counts from the end)
PySliceFrom(s, start) ==
    LET n == Len(s)
        from == IF start < 0 THEN (IF n + start < 0 THEN 0 ELSE n + start)
                ELSE (IF start > n THEN n ELSE start)
    IN  SubSeq(s, from + 1, n)

\* s[:stop] for stop >= 0
PySliceTo(s, stop) == SubSeq(s, 1, IF stop > Len(s) THEN Len(s) ELSE stop)

Last(s) == s[Len(s)]

-----------------------------------------------------------------------------
(* app/core/tokens.py *)

\* len(encoding.encode(text)): the subword tokenizer is a library; a text is
\* counted as one token per whitespace-separated word, a deterministic function
\* of the text as the library's is.
EncodeLen(t) == Len(Split(t))

\* the role strings "user", "assistant", "system" are one token each
RoleTokens == 1

RECURSIVE SumTokens(_)
SumTokens(msgs) ==
    IF msgs = <<>> THEN 0
    ELSE 4 + RoleTokens + EncodeLen(Head(msgs).content) + SumTokens(Tail(msgs))

Contents(msgs) == [i \in 1..Len(msgs) |-> msgs[i].content]

\* count_message_tokens: the tokenizer path, and the word-count estimate taken
\* when the tokenizer raises: int(len(total_text.split()) * 1.33)
count_message_tokens(msgs, tok_ok) ==
    IF tok_ok THEN SumTokens(msgs) + 2
    ELSE (Len(Split(Join(Contents(msgs)))) * 133) \div 100

\* count_tokens
count_tokens(t, tok_ok) ==
    IF tok_ok THEN EncodeLen(t) ELSE (Len(Split(t)) * 133) \div 100

-----------------------------------------------------------------------------
(* app/core/context.py *)

MAX_CONTEXT_TOKENS == 100000
MAX_MESSAGES_TO_KEEP == 50

IsSystem(msg) == msg.role = "system"
NotSystem(msg) == msg.role # "system"

\* variant: drops the single oldest message when over the limit
KeepRecentDropOldest(conv, max_messages) ==
    IF Len(conv) > max_messages THEN Tail(conv) ELSE conv

\* variant: keeps the first max_messages messages, conversation_messages[:max_messages]
KeepOldest(conv, max_messages) ==
    IF Len(conv) > max_messages THEN SubSeq(conv, 1, max_messages) ELSE conv

\* context.py:49-51, conversation_messages[-max_messages:]
KeepRecent(conv, max_messages) ==
    IF Len(conv) > max_messages THEN PySliceFrom(conv, 0 - max_messages) ELSE conv

\* variant: the budget loop drops from the front of the whole list, system
\* messages included
RECURSIVE TrimToBudgetAll(_, _, _, _)
TrimToBudgetAll(sys, conv, max_tokens, tok_ok) ==
    IF count_message_tokens(sys \o conv, tok_ok) > max_tokens /\ Len(sys \o conv) > 1
    THEN IF sys # <<>> THEN TrimToBudgetAll(Tail(sys), conv, max_tokens, tok_ok)
         ELSE TrimToBudgetAll(sys, Tail(conv), max_tokens, tok_ok)
    ELSE sys \o conv

\* variant: the budget loop goes on until nothing but system messages is left
RECURSIVE TrimToBudgetToEmpty(_, _, _, _)
TrimToBudgetToEmpty(sys, conv, max_tokens, tok_ok) ==
    IF count_message_tokens(sys \o conv, tok_ok) > max_tokens /\ Len(conv) > 0
    THEN TrimToBudgetToEmpty(sys, Tail(conv), max_tokens, tok_ok)
    ELSE sys \o conv

\* context.py:56-64, the budget loop: pop(0) while over budget and more than one left
RECURSIVE TrimToBudget(_, _, _, _)
TrimToBudget(sys, conv, max_tokens, tok_ok) ==
    IF count_message_tokens(sys \o conv, tok_ok) > max_tokens /\ Len(conv) > 1
    THEN TrimToBudget(sys, Tail(conv), max_tokens, tok_ok)
    ELSE sys \o conv

trim_conversation_history(msgs, max_tokens, max_messages, tok_ok) ==
    IF msgs = <<>> THEN <<>>
    ELSE TrimToBudget(SelectSeq(msgs, IsSystem),
                      KeepRecent(SelectSeq(msgs, NotSystem), max_messages),
                      max_tokens, tok_ok)

-----------------------------------------------------------------------------
(* app/services/ifixit_tools.py *)

\* ifixit_tools.py:223-229
skip_words ==
    << <<"t","r","o","u","b","l","e","s","h","o","o","t","i","n","g">>, <<"r","e","p","l","a","c","e","m","e","n","t">>, <<"r","e","p","a","i","r">>, <<"d","i","s","a","s","s","e","m","b","l","y">>,
       <<"t","e","a","r","d","o","w","n">>, <<"i","n","s","t","a","l","l">>, <<"w","o","n","'","t">>, <<"d","o","e","s","n","'","t">>, <<"n","o","t"," ","w","o","r","k","i","n","g">>,
       <<"d","i","s","k"," ","d","r","i","v","e">>, <<"p","o","w","e","r"," ","s","u","p","p","l","y">>, <<"f","a","n">>, <<"m","o","t","h","e","r","b","o","a","r","d">>, <<"b","a","t","t","e","r","y">>,
       <<"s","c","r","e","e","n">>, <<"l","c","d">>, <<"c","o","n","t","r","o","l","l","e","r">>, <<"c","h","a","r","g","i","n","g"," ","p","o","r","t">>, <<"h","d","m","i">>,
       <<"o","p","t","i","c","a","l"," ","d","r","i","v","e">>, <<"h","a","r","d"," ","d","r","i","v","e">>, <<"s","s","d">>, <<"c","o","o","l","i","n","g">>, <<"h","e","a","t","s","i","n","k">> >>

\* any(p in t for p in patterns)
AnyIn(patterns, t) == \E i \in 1..Len(patterns) : Contains(patterns[i], t)

\* ifixit_tools.py:231, a result that looks like a guide or a component
IsGuideLike(r) == AnyIn(skip_words, Lower(r.title))
IsDeviceLike(r) == ~IsGuideLike(r)

\* ifixit_tools.py:254-261 and 266-273
SyntheticDevices(query) ==
    [query |-> query,
     devices |-> << [title |-> query, dataType |-> "synthetic", url |-> <<>>] >>]

\* variant: no placeholder, an empty device list when the catalog gives nothing
search_devices_no_placeholder(query, resp) ==
    IF IsNone(resp) THEN [query |-> query, devices |-> <<>>]
    ELSE LET cleaned == SelectSeq(PySliceTo(Get(resp).results, 10), IsDeviceLike)
         IN  IF Get(resp).status = 200
             THEN [query |-> query, devices |-> PySliceTo(cleaned, 5)]
             ELSE [query |-> query, devices |-> <<>>]

\* IFixitTools.search_devices; resp is None when the HTTP call raises or times
\* out, else <<[status, results]>>
search_devices(query, resp) ==
    IF IsNone(resp) THEN SyntheticDevices(query)
    ELSE LET cleaned == SelectSeq(PySliceTo(Get(resp).results, 10), IsDeviceLike)
         IN  IF Get(resp).status = 200 /\ cleaned # <<>>
             THEN [query |-> query, devices |-> PySliceTo(cleaned, 5)]
             ELSE SyntheticDevices(query)

\* IFixitTools.cleanup_guides_list
cleanup_guides_list(raw) ==
    [i \in 1..Len(raw) |->
        [guideid |-> raw[i].guideid, title |-> raw[i].title, subject |-> raw[i].subject,
         type |-> raw[i].type, difficulty |-> raw[i].difficulty]]

\* ifixit_tools.py:319-325, the results of the guide search kept for a device
GuidesOfDevice(results, device_title) ==
    LET title_check == Lower(device_title)
        Keep(r) == Contains(title_check, Lower(r.subject)) \/ Contains(title_check, Lower(r.title))
    IN  SelectSeq(results, Keep)

\* IFixitTools.list_guides; cat and search are the responses of the category
\* endpoint and of the guide search (None: the call raised); the result is
\* None or <<[device, guides]>>
list_guides(device_title, cat, search) ==
    IF IsNone(cat) THEN None
    ELSE IF Get(cat).status = 200 /\ Get(cat).guides # <<>>
    THEN Some([device |-> device_title, guides |-> cleanup_guides_list(Get(cat).guides)])
    ELSE IF IsNone(search) THEN None
    ELSE IF Get(search).status = 200 /\ GuidesOfDevice(Get(search).results, device_title) # <<>>
    THEN Some([device |-> device_title,
               guides |-> cleanup_guides_list(GuidesOfDevice(Get(search).results, device_title))])
    ELSE None

\* IFixitTools.cleanup_repair_guide
cleanup_repair_guide(raw) ==
    [guideid |-> raw.guideid, title |-> raw.title, subject |-> raw.subject,
     introduction |-> raw.introduction_raw, difficulty |-> raw.difficulty,
     time_required |-> raw.time_required, steps |-> raw.steps,
     tools |-> raw.tools, parts |-> raw.parts]

\* IFixitTools.fetch_repair_guide; resp is None when the call raises or the
\* status is an error (raise_for_status)
fetch_repair_guide(guide_id, resp) ==
    IF IsNone(resp) THEN None ELSE Some(cleanup_repair_guide(Get(resp)))

-----------------------------------------------------------------------------
(* app/services/agent.py and app/services/nodes: the AgentState and the steps.
   A step returns [raised, state]: raised when an exception leaves the step,
   state with every in-place write made before that. *)

\* main.py:334-348
initial_state(text, history) ==
    [messages |-> history,
     query |-> text,
     normalized_query |-> None,
     ifixit_device |-> None,
     selected_device |-> None,
     available_guides |-> None,
     selected_guide |-> None,
     repair_steps |-> None,
     fallback_used |-> FALSE,
     final_response |-> None,
     tool_status |-> <<>>]

\* variant: the entry replaces the log
LogReplace(s, text) == [s EXCEPT !.tool_status = << text >>]

\* state["tool_status"].append(text)
Log(s, text) == [s EXCEPT !.tool_status = Append(@, text)]

Returned(s) == [raised |-> FALSE, state |-> s]
Raised(s) == [raised |-> TRUE, state |-> s]

\* variant: the device name is written over the request text as well
normalize_query_node_rewrites_query(s, llm) ==
    LET s1 == Log(s, <<"N","o","r","m","a","l","i","z","i","n","g"," ","q","u","e","r","y",".",".",".">>)
    IN  IF IsNone(llm) THEN Raised(s1)
        ELSE LET device_name == Strip(Get(llm))
             IN  Returned(Log([s1 EXCEPT !.ifixit_device = Some(device_name),
                                          !.normalized_query = Some(device_name),
                                          !.query = device_name],
                              <<"D","e","v","i","c","e",":"," ">> \o device_name))

\* normalize_query_node; llm is None when get_llm or ainvoke raises, else
\* <<response.content>>
normalize_query_node(s, llm) ==
    LET s1 == Log(s, <<"N","o","r","m","a","l","i","z","i","n","g"," ","q","u","e","r","y",".",".",".">>)
    IN  IF IsNone(llm) THEN Raised(s1)
        ELSE LET device_name == Strip(Get(llm))
             IN  Returned(Log([s1 EXCEPT !.ifixit_device = Some(device_name),
                                          !.normalized_query = Some(device_name)],
                              <<"D","e","v","i","c","e",":"," ">> \o device_name))

\* variant: stores the matched title as the canonical device name as well
search_device_node_overwrite(s, resp) ==
    LET s1 == Log(s, <<"S","e","a","r","c","h","i","n","g"," ","i","F","i","x","i","t"," ","f","o","r"," ","d","e","v","i","c","e",".",".",".">>)
    IN  IF IsNone(s.ifixit_device) \/ s.ifixit_device = Some(<<>>)
        THEN Returned([s1 EXCEPT !.selected_device = None])
        ELSE LET dev == search_devices(Get(s.ifixit_device), resp).devices[1]
             IN  Returned(Log([s1 EXCEPT !.selected_device = Some(dev),
                                          !.ifixit_device = Some(dev.title \o <<" ","d","e","v","i","c","e">>)],
                              <<"F","o","u","n","d"," ","d","e","v","i","c","e",":"," ">> \o dev.title))

\* search_device_node
search_device_node(s, resp) ==
    LET s1 == Log(s, <<"S","e","a","r","c","h","i","n","g"," ","i","F","i","x","i","t"," ","f","o","r"," ","d","e","v","i","c","e",".",".",".">>)
    IN  IF IsNone(s.ifixit_device) \/ s.ifixit_device = Some(<<>>)
        THEN Returned([s1 EXCEPT !.selected_device = None])
        ELSE LET result == search_devices(Get(s.ifixit_device), resp)
             IN  IF result.devices # <<>>
                 THEN Returned(Log([s1 EXCEPT !.selected_device = Some(result.devices[1])],
                                   <<"F","o","u","n","d"," ","d","e","v","i","c","e",":"," ">> \o result.devices[1].title))
                 ELSE Returned(Log([s1 EXCEPT !.selected_device = None],
                                   <<"N","o"," ","d","e","v","i","c","e"," ","f","o","u","n","d"," ","o","n"," ","i","F","i","x","i","t">>))

\* list_guides.py:52-55
invalid_suffixes ==
    << <<" ","T","r","o","u","b","l","e","s","h","o","o","t","i","n","g">>, <<" ","R","e","p","a","i","r">>, <<" ","R","e","p","l","a","c","e","m","e","n","t">>, <<" ","D","i","s","a","s","s","e","m","b","l","y">>,
       <<" ","T","e","a","r","d","o","w","n">>, <<" ","W","o","n","'","t"," ","W","o","r","k">>, <<" ","N","o","t"," ","W","o","r","k","i","n","g">>, <<" ","D","o","e","s","n","'","t"," ","W","o","r","k">> >>

\* list_guides.py:51-58, the loop over the suffixes
RECURSIVE CleanTitle(_, _)
CleanTitle(title, suffixes) ==
    IF suffixes = <<>> THEN title
    ELSE CleanTitle(IF EndsWith(title, Head(suffixes))
                    THEN Replace(title, Head(suffixes), <<>>)
                    ELSE title,
                    Tail(suffixes))

\* list_guides_node
list_guides_node(s, cat, search) ==
    LET s1 == Log(s, <<"F","e","t","c","h","i","n","g"," ","a","v","a","i","l","a","b","l","e"," ","r","e","p","a","i","r"," ","g","u","i","d","e","s",".",".",".">>)
    IN  IF IsNone(s.selected_device)
        THEN Returned(Log([s1 EXCEPT !.available_guides = None], <<"N","o"," ","d","e","v","i","c","e"," ","s","e","l","e","c","t","e","d">>))
        ELSE IF Get(s.selected_device).title = <<>>
        THEN Returned(Log([s1 EXCEPT !.available_guides = None], <<"D","e","v","i","c","e"," ","h","a","s"," ","n","o"," ","t","i","t","l","e">>))
        ELSE LET result == list_guides(CleanTitle(Get(s.selected_device).title, invalid_suffixes),
                                       cat, search)
             IN  IF ~IsNone(result) /\ Get(result).guides # <<>>
                 THEN Returned(Log([s1 EXCEPT !.available_guides = Some(Get(result).guides)],
                                   <<"F","o","u","n","d"," ">> \o ToStr(Len(Get(result).guides)) \o <<" ","r","e","p","a","i","r"," ","g","u","i","d","e","s">>))
                 ELSE Returned(Log([s1 EXCEPT !.available_guides = None],
                                   <<"N","o"," ","r","e","p","a","i","r"," ","g","u","i","d","e","s"," ","a","v","a","i","l","a","b","l","e">>))

\* select_guide.py:45-50, the points of one query word for one guide
WordScore(word, guide) ==
    IF Len(word) > 3
    THEN (IF Contains(word, Lower(guide.title)) THEN 2 ELSE 0)
         + (IF Contains(word, Lower(guide.subject)) THEN 1 ELSE 0)
    ELSE 0

RECURSIVE GuideScore(_, _)
GuideScore(words, guide) ==
    IF words = <<>> THEN 0 ELSE WordScore(Head(words), guide) + GuideScore(Tail(words), guide)

\* variant: a later guide of the same score replaces the one kept
RECURSIVE BestGuideLastWins(_, _, _, _)
BestGuideLastWins(guides, words, best_guide, best_score) ==
    IF guides = <<>> THEN best_guide
    ELSE IF GuideScore(words, Head(guides)) >= best_score
         THEN BestGuideLastWins(Tail(guides), words, Some(Head(guides)),
                                GuideScore(words, Head(guides)))
         ELSE BestGuideLastWins(Tail(guides), words, best_guide, best_score)

\* variant: the guide kept is a copy with its title as it was compared, in
\* lower case
RECURSIVE BestGuideLowered(_, _, _, _)
BestGuideLowered(guides, words, best_guide, best_score) ==
    IF guides = <<>> THEN best_guide
    ELSE IF GuideScore(words, Head(guides)) > best_score
         THEN BestGuideLowered(Tail(guides), words,
                               Some([Head(guides) EXCEPT !.title = Lower(@)]),
                               GuideScore(words, Head(guides)))
         ELSE BestGuideLowered(Tail(guides), words, best_guide, best_score)

\* select_guide.py:35-54, the scan keeping the first guide of the highest
\* score above best_score; the result is None or <<guide>>
RECURSIVE BestGuide(_, _, _, _)
BestGuide(guides, words, best_guide, best_score) ==
    IF guides = <<>> THEN best_guide
    ELSE IF GuideScore(words, Head(guides)) > best_score
         THEN BestGuide(Tail(guides), words, Some(Head(guides)), GuideScore(words, Head(guides)))
         ELSE BestGuide(Tail(guides), words, best_guide, best_score)

\* select_guide_node; iterating over available_guides = None raises TypeError
select_guide_node(s) ==
    LET s1 == Log(s, <<"S","e","l","e","c","t","i","n","g"," ","m","o","s","t"," ","r","e","l","e","v","a","n","t"," ","g","u","i","d","e",".",".",".">>)
    IN  IF IsNone(s.available_guides) THEN Raised(s1)
        ELSE LET guides == Get(s.available_guides)
                 scored == BestGuide(guides, Split(Lower(s.query)), None, 0)
                 best == IF IsNone(scored) /\ guides # <<>> THEN Some(guides[1]) ELSE scored
             IN  IF ~IsNone(best)
                 THEN Returned(Log([s1 EXCEPT !.selected_guide = best],
                                   <<"S","e","l","e","c","t","e","d",":"," ">> \o Get(best).title))
                 ELSE Returned(Log([s1 EXCEPT !.selected_guide = None],
                                   <<"N","o"," ","s","u","i","t","a","b","l","e"," ","g","u","i","d","e"," ","f","o","u","n","d">>))

\* variant: a failed guide call leaves the step as an exception
fetch_guide_node_unguarded(s, resp) ==
    LET s1 == Log(s, <<"F","e","t","c","h","i","n","g"," ","r","e","p","a","i","r"," ","i","n","s","t","r","u","c","t","i","o","n","s",".",".",".">>)
    IN  IF IsNone(s.selected_guide) \/ IsNone(resp) THEN Raised(s1)
        ELSE Returned(Log([s1 EXCEPT !.repair_steps = fetch_repair_guide(Get(s.selected_guide).guideid, resp)],
                          <<"R","e","t","r","i","e","v","e","d"," ">> \o ToStr(Len(Get(resp).steps)) \o <<" ","r","e","p","a","i","r"," ","s","t","e","p","s">>))

\* fetch_guide_node; subscripting selected_guide = None raises TypeError
fetch_guide_node(s, resp) ==
    LET s1 == Log(s, <<"F","e","t","c","h","i","n","g"," ","r","e","p","a","i","r"," ","i","n","s","t","r","u","c","t","i","o","n","s",".",".",".">>)
    IN  IF IsNone(s.selected_guide) THEN Raised(s1)
        ELSE LET result == fetch_repair_guide(Get(s.selected_guide).guideid, resp)
             IN  IF ~IsNone(result)
                 THEN Returned(Log([s1 EXCEPT !.repair_steps = result],
                                   <<"R","e","t","r","i","e","v","e","d"," ">> \o ToStr(Len(Get(result).steps)) \o <<" ","r","e","p","a","i","r"," ","s","t","e","p","s">>))
                 ELSE Returned(Log([s1 EXCEPT !.repair_steps = None],
                                   <<"F","a","i","l","e","d"," ","t","o"," ","f","e","t","c","h"," ","r","e","p","a","i","r"," ","g","u","i","d","e">>))

\* fallback_search.py:59-66, the Tavily results in the shape of the other provider
TavilyResults(raw) ==
    [i \in 1..Len(raw) |-> [title |-> raw[i].title, href |-> raw[i].url, body |-> raw[i].content]]

\* fallback_search.py:84-111, the second provider; ddg is None when the search
\* raises, else <<results>>
DuckDuckGoSearch(s, ddg) ==
    LET s1 == Log(s, <<"T","r","y","i","n","g"," ","D","u","c","k","D","u","c","k","G","o"," ","s","e","a","r","c","h",".",".",".">>)
    IN  IF IsNone(ddg)
        THEN Returned(Log([Log(s1, <<"A","l","l"," ","f","a","l","l","b","a","c","k"," ","s","e","a","r","c","h","e","s"," ","f","a","i","l","e","d">>) EXCEPT !.repair_steps = None],
                          <<"N","o"," ","c","o","m","m","u","n","i","t","y"," ","s","o","u","r","c","e","s"," ","f","o","u","n","d">>))
        ELSE IF Get(ddg) # <<>>
        THEN Returned(Log([s1 EXCEPT !.repair_steps =
                                   Some([source |-> "duckduckgo", results |-> Get(ddg)])],
                          <<"F","o","u","n","d"," ">> \o ToStr(Len(Get(ddg))) \o <<" ","r","e","s","u","l","t","s"," ","f","r","o","m"," ","D","u","c","k","D","u","c","k","G","o">>))
        ELSE Returned(Log([s1 EXCEPT !.repair_steps = None], <<"N","o"," ","c","o","m","m","u","n","i","t","y"," ","s","o","u","r","c","e","s"," ","f","o","u","n","d">>))

\* variant: records the fallback only when a provider returned results
fallback_search_node_lazy(s, tavily_key, tavily, ddg) ==
    LET r == DuckDuckGoSearch(Log(s, <<"S","e","a","r","c","h","i","n","g"," ","c","o","m","m","u","n","i","t","y"," ","s","o","u","r","c","e","s"," ","a","s"," ","f","a","l","l","b","a","c","k",".",".",".">>), ddg)
    IN  [r EXCEPT !.state.fallback_used = ~IsNone(r.state.repair_steps)]

\* variant: the free provider is asked first, the paid one when it gave nothing
fallback_search_node_ddg_first(s, tavily_key, tavily, ddg) ==
    LET s1 == [Log(s, <<"S","e","a","r","c","h","i","n","g"," ","c","o","m","m","u","n","i","t","y"," ","s","o","u","r","c","e","s"," ","a","s"," ","f","a","l","l","b","a","c","k",".",".",".">>) EXCEPT !.fallback_used = TRUE]
        r == DuckDuckGoSearch(s1, ddg)
    IN  IF ~IsNone(r.state.repair_steps) \/ ~tavily_key \/ IsNone(tavily) THEN r
        ELSE IF Get(tavily) = <<>> THEN r
        ELSE Returned(Log([Log(r.state, <<"S","e","a","r","c","h","i","n","g"," ","w","i","t","h"," ","T","a","v","i","l","y"," ","A","I",".",".",".">>) EXCEPT !.repair_steps =
                                Some([source |-> "tavily",
                                      results |-> TavilyResults(Get(tavily))])],
                          <<"F","o","u","n","d"," ">> \o ToStr(Len(Get(tavily))) \o <<" ","r","e","s","u","l","t","s"," ","f","r","o","m"," ","T","a","v","i","l","y">>))

\* fallback_search_node; tavily_key: settings.tavily_api_key is set; tavily is
\* None when the client raises, else <<response["results"]>>
fallback_search_node(s, tavily_key, tavily, ddg) ==
    LET s1 == [Log(s, <<"S","e","a","r","c","h","i","n","g"," ","c","o","m","m","u","n","i","t","y"," ","s","o","u","r","c","e","s"," ","a","s"," ","f","a","l","l","b","a","c","k",".",".",".">>) EXCEPT !.fallback_used = TRUE]
    IN  IF tavily_key
        THEN LET s2 == Log(s1, <<"S","e","a","r","c","h","i","n","g"," ","w","i","t","h"," ","T","a","v","i","l","y"," ","A","I",".",".",".">>)
             IN  IF IsNone(tavily)
                 THEN DuckDuckGoSearch(Log(s2, <<"T","a","v","i","l","y"," ","f","a","i","l","e","d",","," ","t","r","y","i","n","g"," ","D","u","c","k","D","u","c","k","G","o",".",".",".">>), ddg)
                 ELSE IF Get(tavily) # <<>>
                 THEN Returned(Log([s2 EXCEPT !.repair_steps =
                                       Some([source |-> "tavily",
                                             results |-> TavilyResults(Get(tavily))])],
                                   <<"F","o","u","n","d"," ">> \o ToStr(Len(Get(tavily))) \o <<" ","r","e","s","u","l","t","s"," ","f","r","o","m"," ","T","a","v","i","l","y">>))
                 ELSE DuckDuckGoSearch(s2, ddg)
        ELSE DuckDuckGoSearch(Log(s1, <<"T","a","v","i","l","y"," ","n","o","t"," ","c","o","n","f","i","g","u","r","e","d",","," ","t","r","y","i","n","g"," ","D","u","c","k","D","u","c","k","G","o",".",".",".">>), ddg)

(* format_response.py: final_response is kept as the sequence of the pieces it
   is concatenated from, one string per literal or formatted block; the words
   of final_response.split() are these pieces. *)

\* format_response.py:22-44, intros[len(query) % len(intros)]
_get_conversational_intro(s) ==
    IF Len(s.messages) > 2
    THEN << "Sure! Let me help you with that.",
            "Great question! Here's what I found:",
            "I'm happy to help with that.",
            "Let me explain this step by step." >>[(Len(s.query) % 4) + 1]
    ELSE << "I found the perfect repair guide for you!",
            "Great news! I found an official iFixit guide for your device.",
            "I've got you covered! Here's the repair information you need:",
            "Perfect! I found exactly what you're looking for." >>[(Len(s.query) % 4) + 1]

\* format_response.py:47-80
_get_follow_up_suggestions(s) ==
    IF IsNone(s.repair_steps) \/ s.fallback_used
    THEN << "**Need more help?**" >>
    ELSE LET guide == Get(s.repair_steps)
             difficulty == Lower(guide.difficulty)
         IN  << "**What else can I help you with?**" >>
             \o (IF Contains(<<"h","a","r","d">>, difficulty) \/ Contains(<<"d","i","f","f","i","c","u","l","t">>, difficulty)
                 THEN << "- Tips to make this repair easier" >> ELSE <<>>)
             \o (IF guide.tools # <<>> THEN << "- Questions about the required tools" >> ELSE <<>>)
             \o (IF guide.parts # <<>> THEN << "- Where to buy the replacement parts" >> ELSE <<>>)
             \o << "- Clarification on any step" >>

\* format_response.py:83-93
_get_conversational_closing(s) ==
    << "I'm here if you have any questions about these steps!",
       "Feel free to ask if you need clarification on any step.",
       "Let me know if you'd like more details!",
       "Don't hesitate to ask if something isn't clear." >>[(Len(s.query) % 4) + 1]

\* format_response.py:116-131
CommunitySection(s) ==
    LET payload == Get(s.repair_steps)
        results == IF "results" \in DOMAIN payload THEN payload.results ELSE <<>>
    IN  << "## Community Resources" >> \o [i \in 1..Len(results) |-> "### {i}. {title}"]

\* format_response.py:136-195
GuideSection(s) ==
    LET guide == Get(s.repair_steps)
    IN  << "# {title}" >>
        \o (IF guide.subject # <<>> \/ guide.difficulty # <<>> \/ guide.time_required # <<>>
            THEN << "{metadata}" >> ELSE <<>>)
        \o (IF guide.introduction # <<>> THEN << "## Overview" >> ELSE <<>>)
        \o (IF guide.tools # <<>> THEN << "## Tools You'll Need" >> ELSE <<>>)
        \o (IF guide.parts # <<>> THEN << "## Required Parts" >> ELSE <<>>)
        \o << "## Step-by-Step Instructions" >>
        \o [i \in 1..Len(guide.steps) |-> "### Step {orderby}: {title}"]

\* format_response.py:200-207
ApologySection ==
    << "**I couldn't find a repair guide for this request.**",
       "Please provide:",
       "I'm ready to help once I have more details!" >>

\* variant: the closing line is appended whenever repair_steps is set
format_response_node_closing_on_fallback(s) ==
    LET s1 == Log(s, <<"F","o","r","m","a","t","t","i","n","g"," ","r","e","s","p","o","n","s","e",".",".",".">>)
        body == IF ~IsNone(s.repair_steps)
                THEN << _get_conversational_intro(s) >>
                     \o (IF s.fallback_used THEN CommunitySection(s) ELSE GuideSection(s))
                ELSE ApologySection
        closing == IF ~IsNone(s.repair_steps)
                   THEN << _get_conversational_closing(s) >> ELSE <<>>
    IN  Returned(Log([s1 EXCEPT !.final_response =
                             Some(body \o _get_follow_up_suggestions(s) \o closing)],
                     <<"R","e","s","p","o","n","s","e"," ","r","e","a","d","y">>))

\* format_response_node
format_response_node(s) ==
    LET s1 == Log(s, <<"F","o","r","m","a","t","t","i","n","g"," ","r","e","s","p","o","n","s","e",".",".",".">>)
        body == IF ~IsNone(s.repair_steps)
                THEN << _get_conversational_intro(s) >>
                     \o (IF s.fallback_used THEN CommunitySection(s) ELSE GuideSection(s))
                ELSE ApologySection
        closing == IF ~IsNone(s.repair_steps) /\ ~s.fallback_used
                   THEN << _get_conversational_closing(s) >> ELSE <<>>
    IN  Returned(Log([s1 EXCEPT !.final_response =
                             Some(body \o _get_follow_up_suggestions(s) \o closing)],
                     <<"R","e","s","p","o","n","s","e"," ","r","e","a","d","y">>))

-----------------------------------------------------------------------------
(* app/services/nodes/conversational_response.py *)

\* conversational_response.py:52-61
greeting_patterns ==
    << <<"h","i">>, <<"h","e","l","l","o">>, <<"h","e","y">>, <<"g","o","o","d"," ","m","o","r","n","i","n","g">>, <<"g","o","o","d"," ","a","f","t","e","r","n","o","o","n">>, <<"g","o","o","d"," ","e","v","e","n","i","n","g">>,
       <<"g","r","e","e","t","i","n","g","s">>, <<"h","o","w","d","y">>, <<"w","h","a","t","'","s"," ","u","p">>, <<"w","h","a","t","s"," ","u","p">>, <<"s","u","p">>,
       <<"h","o","w"," ","a","r","e"," ","y","o","u">>, <<"h","o","w"," ","r"," ","u">>, <<"h","o","w"," ","d","o"," ","y","o","u"," ","d","o">>,
       <<"t","h","a","n","k","s">>, <<"t","h","a","n","k"," ","y","o","u">>, <<"a","p","p","r","e","c","i","a","t","e">>, <<"g","r","e","a","t"," ","j","o","b">>,
       <<"b","y","e">>, <<"g","o","o","d","b","y","e">>, <<"s","e","e"," ","y","o","u">>, <<"l","a","t","e","r">>,
       <<"w","h","o"," ","a","r","e"," ","y","o","u">>, <<"w","h","a","t"," ","c","a","n"," ","y","o","u"," ","d","o">>, <<"w","h","a","t"," ","d","o"," ","y","o","u"," ","d","o">>,
       <<"h","e","l","p"," ","m","e">>, <<"c","a","n"," ","y","o","u"," ","h","e","l","p">>, <<"i"," ","n","e","e","d"," ","h","e","l","p">>,
       <<"w","h","a","t"," ","i","s"," ","t","h","i","s">>, <<"w","h","a","t","'","s"," ","t","h","i","s">>, <<"w","h","a","t","s"," ","t","h","i","s">> >>

\* conversational_response.py:70
repair_keywords ==
    << <<"f","i","x">>, <<"r","e","p","a","i","r">>, <<"b","r","o","k","e","n">>, <<"r","e","p","l","a","c","e">>, <<"s","c","r","e","e","n">>, <<"b","a","t","t","e","r","y">> >>

\* conversational_response.py:84-92
followup_indicators ==
    << <<"w","h","a","t"," ","a","b","o","u","t">>, <<"h","o","w"," ","d","o"," ","i">>, <<"c","a","n"," ","y","o","u"," ","e","x","p","l","a","i","n">>, <<"w","h","y">>, <<"w","h","e","n">>,
       <<"w","h","a","t"," ","i","s">>, <<"w","h","a","t"," ","a","r","e">>, <<"w","h","i","c","h">>, <<"w","h","e","r","e">>, <<"t","e","l","l"," ","m","e"," ","m","o","r","e">>,
       <<"c","l","a","r","i","f","y">>, <<"c","o","n","f","u","s","e","d">>, <<"d","o","n","'","t"," ","u","n","d","e","r","s","t","a","n","d">>, <<"w","h","a","t"," ","d","o","e","s">>,
       <<"i","n"," ","s","t","e","p">>, <<"t","h","e"," ","s","t","e","p">>, <<"t","h","i","s"," ","s","t","e","p">>, <<"t","h","a","t"," ","p","a","r","t">>,
       <<"a","l","t","e","r","n","a","t","i","v","e">>, <<"i","n","s","t","e","a","d">>, <<"e","a","s","i","e","r"," ","w","a","y">>, <<"d","i","f","f","e","r","e","n","t">>,
       <<"t","o","o","l">>, <<"p","a","r","t">>, <<"w","h","e","r","e"," ","t","o"," ","b","u","y">>, <<"h","o","w"," ","m","u","c","h">>,
       <<"s","k","i","p">>, <<"n","e","c","e","s","s","a","r","y">>, <<"o","p","t","i","o","n","a","l">>, <<"i","m","p","o","r","t","a","n","t">> >>

\* conversational_response.py:75, the length over which an assistant turn
\* counts as repair context
REPAIR_CONTEXT_LEN == 200

\* conversational_response.py:74-77
has_repair_context(messages) ==
    \E i \in 1..Len(messages) :
        messages[i].role = "assistant" /\ Len(messages[i].content) > REPAIR_CONTEXT_LEN

_is_followup_question(s) ==
    LET query == Strip(Lower(s.query))
    IN  IF AnyIn(greeting_patterns, query) THEN TRUE
        ELSE IF Len(Split(query)) <= 3 /\ ~AnyIn(repair_keywords, query) THEN TRUE
        ELSE IF ~has_repair_context(s.messages) THEN FALSE
        ELSE AnyIn(followup_indicators, query)

\* conversational_response.py:213-215
greeting_words ==
    << <<"h","i">>, <<"h","e","l","l","o">>, <<"h","e","y">>, <<"g","o","o","d"," ","m","o","r","n","i","n","g">>, <<"g","o","o","d"," ","a","f","t","e","r","n","o","o","n">>, <<"g","o","o","d"," ","e","v","e","n","i","n","g">> >>

\* conversational_response.py:229-232
CannedApology ==
    << "I'd be happy to help with that! However, I'm having trouble processing your question right now.",
       "Could you rephrase it, or would you like to start a new repair search?" >>

\* variant: a failure of text generation leaves the step as an exception
conversational_response_node_unguarded(s, llm_key, llm) ==
    LET s1 == Log(s, <<"U","n","d","e","r","s","t","a","n","d","i","n","g"," ","y","o","u","r"," ","q","u","e","s","t","i","o","n",".",".",".">>)
    IN  IF ~llm_key THEN Raised(s1)
        ELSE IF IsNone(llm) THEN Raised(Log(s1, <<"G","e","n","e","r","a","t","i","n","g"," ","a","n","s","w","e","r",".",".",".">>))
        ELSE Returned(Log([Log(s1, <<"G","e","n","e","r","a","t","i","n","g"," ","a","n","s","w","e","r",".",".",".">>) EXCEPT !.final_response =
                               Some(<< "{response_text}",
                                       IF AnyIn(greeting_words, Lower(s.query))
                                       THEN "**Ready to help!** Tell me about the device you need to repair"
                                       ELSE "**Still have questions?** Feel free to ask me anything else!" >>)],
                          <<"R","e","s","p","o","n","s","e"," ","r","e","a","d","y">>))

\* conversational_response_node; llm_key: get_llm finds its API key; llm is
\* None when ainvoke raises, else <<response.content>>
conversational_response_node(s, llm_key, llm) ==
    LET s1 == Log(s, <<"U","n","d","e","r","s","t","a","n","d","i","n","g"," ","y","o","u","r"," ","q","u","e","s","t","i","o","n",".",".",".">>)
    IN  IF ~llm_key
        THEN Returned(Log([s1 EXCEPT !.final_response = Some(CannedApology)], <<"R","e","s","p","o","n","s","e"," ","r","e","a","d","y">>))
        ELSE IF IsNone(llm)
        THEN Returned(Log([Log(s1, <<"G","e","n","e","r","a","t","i","n","g"," ","a","n","s","w","e","r",".",".",".">>) EXCEPT
                               !.final_response = Some(CannedApology)],
                          <<"R","e","s","p","o","n","s","e"," ","r","e","a","d","y">>))
        ELSE Returned(Log([Log(s1, <<"G","e","n","e","r","a","t","i","n","g"," ","a","n","s","w","e","r",".",".",".">>) EXCEPT !.final_response =
                               Some(<< "{response_text}",
                                       IF AnyIn(greeting_words, Lower(s.query))
                                       THEN "**Ready to help!** Tell me about the device you need to repair"
                                       ELSE "**Still have questions?** Feel free to ask me anything else!" >>)],
                          <<"R","e","s","p","o","n","s","e"," ","r","e","a","d","y">>))

-----------------------------------------------------------------------------
(* app/services/agent.py: the routing functions and the graph *)

\* variant: a run already marked as fallback is sent to the fallback
should_use_fallback_by_flag(s) ==
    IF s.fallback_used THEN "fallback"
    ELSE IF IsNone(s.selected_device) THEN "fallback"
    ELSE IF IsNone(s.available_guides) \/ Get(s.available_guides) = <<>> THEN "fallback"
    ELSE IF IsNone(s.selected_guide) THEN "fallback"
    ELSE "format"

\* variant: looks only at the selected guide
should_use_fallback_guide_only(s) ==
    IF IsNone(s.selected_guide) THEN "fallback" ELSE "format"

\* should_use_fallback
should_use_fallback(s) ==
    IF IsNone(s.selected_device) THEN "fallback"
    ELSE IF IsNone(s.available_guides) \/ Get(s.available_guides) = <<>> THEN "fallback"
    ELSE IF IsNone(s.selected_guide) THEN "fallback"
    ELSE "format"

\* variant: the history is consulted first
route_initial_query_context_first(s) ==
    IF ~has_repair_context(s.messages) THEN "normalize"
    ELSE IF _is_followup_question(s) THEN "conversational" ELSE "normalize"

\* route_initial_query
route_initial_query(s) == IF _is_followup_question(s) THEN "conversational" ELSE "normalize"

\* agent.py:126-133, the successor map of the entry decision
EntryTarget(label) ==
    IF label = "conversational" THEN "conversational_response" ELSE "normalize_query"

\* agent.py:141-148, the successor map of the decision after select_guide
MidChainTarget(label) ==
    IF label = "fallback" THEN "fallback_search" ELSE "fetch_guide"

NodeNames ==
    {"conversational_response", "normalize_query", "search_device", "list_guides",
     "select_guide", "fetch_guide", "fallback_search", "format_response"}

\* variant: the decision is taken after list_guides, select_guide is left out
SuccessorDecideEarly(n, s) ==
    CASE n = "normalize_query" -> "search_device"
      [] n = "search_device" -> "list_guides"
      [] n = "list_guides" -> MidChainTarget(should_use_fallback(s))
      [] n = "select_guide" -> MidChainTarget(should_use_fallback(s))
      [] n = "fetch_guide" -> "format_response"
      [] n = "fallback_search" -> "format_response"
      [] n = "format_response" -> "__end__"
      [] n = "conversational_response" -> "__end__"

\* variant: format_response is followed by conversational_response
SuccessorPastAnswer(n, s) ==
    CASE n = "normalize_query" -> "search_device"
      [] n = "search_device" -> "list_guides"
      [] n = "list_guides" -> "select_guide"
      [] n = "select_guide" -> MidChainTarget(should_use_fallback(s))
      [] n = "fetch_guide" -> "format_response"
      [] n = "fallback_search" -> "format_response"
      [] n = "format_response" -> "conversational_response"
      [] n = "conversational_response" -> "__end__"

\* variant: fetch_guide is followed by fallback_search
SuccessorBothProducers(n, s) ==
    CASE n = "normalize_query" -> "search_device"
      [] n = "search_device" -> "list_guides"
      [] n = "list_guides" -> "select_guide"
      [] n = "select_guide" -> MidChainTarget(should_use_fallback(s))
      [] n = "fetch_guide" -> "fallback_search"
      [] n = "fallback_search" -> "format_response"
      [] n = "format_response" -> "__end__"
      [] n = "conversational_response" -> "__end__"

\* agent.py:136-152, the node that follows n once n has returned state s
Successor(n, s) ==
    CASE n = "normalize_query" -> "search_device"
      [] n = "search_device" -> "list_guides"
      [] n = "list_guides" -> "select_guide"
      [] n = "select_guide" -> MidChainTarget(should_use_fallback(s))
      [] n = "fetch_guide" -> "format_response"
      [] n = "fallback_search" -> "format_response"
      [] n = "format_response" -> "__end__"
      [] n = "conversational_response" -> "__end__"

\* agent.py:116-123, the function registered for node n applied to state s;
\* io holds what the collaborators answer during the call
RunNode(n, s, io) ==
    CASE n = "conversational_response" -> conversational_response_node(s, io.llm_key, io.llm)
      [] n = "normalize_query" -> normalize_query_node(s, io.llm)
      [] n = "search_device" -> search_device_node(s, io.devices)
      [] n = "list_guides" -> list_guides_node(s, io.cat, io.search)
      [] n = "select_guide" -> select_guide_node(s)
      [] n = "fetch_guide" -> fetch_guide_node(s, io.guide)
      [] n = "fallback_search" -> fallback_search_node(s, io.tavily_key, io.tavily, io.ddg)
      [] n = "format_response" -> format_response_node(s)

\* ifixit_tools.py:70-75, an IFixitTools object: it holds its HTTP client and
\* nothing of a request
IFixitToolsInstance == [client |-> "httpx.AsyncClient"]

\* get_ifixit_tools, as a function of the module-level variable
get_ifixit_tools(tools) == IF IsNone(tools) THEN Some(IFixitToolsInstance) ELSE tools

\* search_device.py:35-40, list_guides.py:34-40, fetch_guide.py:30: whether
\* node n reaches its get_ifixit_tools() call on state s
CallsCatalog(n, s) ==
    CASE n = "search_device" -> ~(IsNone(s.ifixit_device) \/ s.ifixit_device = Some(<<>>))
      [] n = "list_guides" -> ~IsNone(s.selected_device)
      [] n = "fetch_guide" -> TRUE
      [] OTHER -> FALSE

\* the module-level variable after node n has run on state s
ToolsAfter(n, s, tools) == IF CallsCatalog(n, s) THEN get_ifixit_tools(tools) ELSE tools
-----------------------------------------------------------------------------
(* Requests, stored history and collaborator answers *)

\* an assistant turn longer than REPAIR_CONTEXT_LEN characters
LongAnswer == [i \in 1..(REPAIR_CONTEXT_LEN + 1) |-> "x"]

Queries ==
    { <<"h","i">>, <<"m","y"," ","p","s","5"," ","f","a","n"," ","i","s"," ","l","o","u","d">>, <<"b","a","t","t","e","r","y"," ","i","s"," ","d","e","a","d">>, <<"w","h","y"," ","i","s"," ","i","t"," ","l","o","u","d">> }

\* the rows of the session before the request arrives
Histories ==
    { <<>>,
      << [role |-> "user", content |-> <<"m","y"," ","p","s","5"," ","f","a","n"," ","i","s"," ","l","o","u","d">>],
         [role |-> "assistant", content |-> LongAnswer] >> }

\* response.content of the text-generation call of normalize_query
DeviceNameReplies == { <<" ">>, <<" ","P","l","a","y","S","t","a","t","i","o","n"," ","5","\n">>, <<"i","P","h","o","n","e"," ","1","2"," ","R","e","p","a","i","r">> }

RawDevice(title) == [title |-> title, dataType |-> "device", url |-> <<"/","D","e","v","i","c","e">>]

\* answers of GET /search/{query}?filter=device
DeviceSearchResponses ==
    { None,
      Some([status |-> 404, results |-> <<>>]),
      Some([status |-> 200, results |-> <<>>]),
      Some([status |-> 200, results |-> << RawDevice(<<"P","l","a","y","S","t","a","t","i","o","n"," ","5">>) >>]),
      Some([status |-> 200, results |-> << RawDevice(<<"P","l","a","y","S","t","a","t","i","o","n"," ","5"," ","F","a","n"," ","R","e","p","l","a","c","e","m","e","n","t">>),
                                            RawDevice(<<"P","l","a","y","S","t","a","t","i","o","n"," ","5">>) >>]),
      Some([status |-> 200, results |-> << RawDevice(<<"P","l","a","y","S","t","a","t","i","o","n"," ","5"," ","F","a","n"," ","R","e","p","l","a","c","e","m","e","n","t">>) >>]),
      Some([status |-> 200, results |-> << RawDevice(<<>>) >>]),
      Some([status |-> 200,
            results |-> [i \in 1..11 |-> IF i <= 10 THEN RawDevice(<<"P","l","a","y","S","t","a","t","i","o","n"," ","5"," ","F","a","n"," ","R","e","p","l","a","c","e","m","e","n","t">>)
                                         ELSE RawDevice(<<"P","l","a","y","S","t","a","t","i","o","n"," ","5">>)]]) }

RawGuide(id, title, subject) ==
    [guideid |-> id, title |-> title, subject |-> subject, type |-> "replacement",
     difficulty |-> <<"M","o","d","e","r","a","t","e">>]

GuideBattery == RawGuide(1, <<"B","a","t","t","e","r","y"," ","R","e","p","l","a","c","e","m","e","n","t">>, <<"B","a","t","t","e","r","y">>)
GuideScreen == RawGuide(2, <<"S","c","r","e","e","n"," ","R","e","p","l","a","c","e","m","e","n","t">>, <<"S","c","r","e","e","n">>)
GuideFan == RawGuide(3, <<"P","l","a","y","S","t","a","t","i","o","n"," ","5"," ","F","a","n"," ","R","e","p","l","a","c","e","m","e","n","t">>, <<"F","a","n">>)

\* answers of GET /wikis/CATEGORY/{title}
CategoryResponses ==
    { None,
      Some([status |-> 404, guides |-> <<>>]),
      Some([status |-> 200, guides |-> <<>>]),
      Some([status |-> 200, guides |-> << GuideBattery, GuideScreen >>]) }

\* answers of GET /search/{title}?filter=guide
GuideSearchResponses ==
    { None,
      Some([status |-> 200, results |-> <<>>]),
      Some([status |-> 200, results |-> << GuideBattery, GuideFan >>]) }

RawRepairGuide ==
    [guideid |-> 1, title |-> <<"B","a","t","t","e","r","y"," ","R","e","p","l","a","c","e","m","e","n","t">>, subject |-> <<"B","a","t","t","e","r","y">>,
     introduction_raw |-> <<"R","e","p","l","a","c","e"," ","i","t",".">>, difficulty |-> <<"M","o","d","e","r","a","t","e">>,
     time_required |-> <<>>,
     steps |-> << [orderby |-> 1, title |-> <<>>, text |-> <<"O","p","e","n",".">>, images |-> <<>>],
                  [orderby |-> 2, title |-> <<>>, text |-> <<"S","w","a","p",".">>, images |-> <<>>] >>,
     tools |-> << <<"S","p","u","d","g","e","r">> >>, parts |-> <<>>]

\* answers of GET /guides/{id}
GuideResponses == { None, Some(RawRepairGuide) }

TavilyHit(n) == [title |-> <<"T">> \o ToStr(n), url |-> <<"u">>, content |-> <<"c">>]
DdgHit(n) == [title |-> <<"D">> \o ToStr(n), href |-> <<"u">>, body |-> <<"c">>]

\* what TavilyClient.search answers
TavilyResponses ==
    { None, Some(<<>>), Some(<< TavilyHit(1), TavilyHit(2) >>),
      Some(<< TavilyHit(1), TavilyHit(2), TavilyHit(3), TavilyHit(4) >>) }

\* what DDGS().text answers
DdgResponses == { None, Some(<<>>), Some(<< DdgHit(1) >>) }

\* text of the conversational reply
ChatReplies == { None, Some(<<"H","e","l","l","o","!">>) }

NoIO ==
    [llm_key |-> TRUE, llm |-> None, devices |-> None, cat |-> None, search |-> None,
     guide |-> None, tavily_key |-> FALSE, tavily |-> None, ddg |-> None]

\* the collaborator answers node n can meet
IOFor(n) ==
    CASE n = "conversational_response" ->
            {[NoIO EXCEPT !.llm_key = k, !.llm = l] : k \in BOOLEAN, l \in ChatReplies}
      [] n = "normalize_query" ->
            {[NoIO EXCEPT !.llm = l] : l \in {None} \cup {Some(t) : t \in DeviceNameReplies}}
      [] n = "search_device" -> {[NoIO EXCEPT !.devices = d] : d \in DeviceSearchResponses}
      [] n = "list_guides" ->
            {[NoIO EXCEPT !.cat = c, !.search = g] :
                c \in CategoryResponses, g \in GuideSearchResponses}
      [] n = "fetch_guide" -> {[NoIO EXCEPT !.guide = g] : g \in GuideResponses}
      [] n = "fallback_search" ->
            {[NoIO EXCEPT !.tavily_key = k, !.tavily = t, !.ddg = d] :
                k \in BOOLEAN, t \in TavilyResponses, d \in DdgResponses}
      [] OTHER -> {NoIO}

-----------------------------------------------------------------------------
(* app/main.py: stream_agent_response for one request *)

Event(type, content) == [type |-> type, content |-> content]

\* main.py:454-458, the row of a session that has been created: no title yet
NewSession == [title |-> None]

Idle ==
    /\ trim_in = None /\ trim_once = None /\ trim_twice = None /\ route_out = None
    /\ runs = <<>> /\ _ifixit_tools = None /\ chat_sessions = NewSession

\* the request has reached stream_agent_response
Init ==
    /\ message \in Queries
    /\ db_messages \in Histories
    /\ db_usage = <<>>
    /\ tokenizer_ok \in BOOLEAN
    /\ state = initial_state(message, <<>>)
    /\ node = "__start__"
    /\ visited = <<>>
    /\ pc = "request"
    /\ final_state = None
    /\ events = <<>>
    /\ word_i = 0
    /\ Idle

\* main.py:312-331, the history handed to the graph; rows are the stored rows
\* including the request's own, load_ok is false when the select raises
managed_context(rows, load_ok, tok_ok) ==
    IF load_ok
    THEN trim_conversation_history(PySliceTo(rows, Len(rows) - 1),
                                   MAX_CONTEXT_TOKENS, MAX_MESSAGES_TO_KEEP, tok_ok)
    ELSE <<>>

\* str.strip(chars) for a set of characters
StripOf(t, chars) ==
    IF \A i \in 1..Len(t) : t[i] \in chars THEN <<>>
    ELSE SubSeq(t,
                CHOOSE i \in 1..Len(t) : t[i] \notin chars /\ \A j \in 1..(i - 1) : t[j] \in chars,
                CHOOSE i \in 1..Len(t) : t[i] \notin chars /\ \A j \in (i + 1)..Len(t) : t[j] \in chars)

UpperChar(c) ==
    IF \E i \in 1..Len(LowerCase) : LowerCase[i] = c
    THEN UpperCase[CHOOSE i \in 1..Len(LowerCase) : LowerCase[i] = c]
    ELSE c

\* str.capitalize()
Capitalize(w) == IF w = <<>> THEN w ELSE << UpperChar(w[1]) >> \o Lower(Tail(w))

\* main.py:89-90 and 116-117, title[:47] + "..." over 50 characters
TitleCut(title) ==
    IF Len(title) > 50 THEN SubSeq(title, 1, 47) \o <<".",".",".">> ELSE title

\* main.py:100
filler_words ==
    << <<"m","y">>, <<"t","h","e">>, <<"a">>, <<"a","n">>, <<"i","s">>, <<"a","r","e">>, <<"w","a","s">>, <<"w","e","r","e">>, <<"h","a","v","e">>, <<"h","a","s">>,
       <<"h","a","d">>, <<"h","e","l","p">>, <<"m","e">>, <<"w","i","t","h">> >>

\* main.py:57-119; llm is None when no key is configured or the title call
\* raises, else <<response.content>>
generate_session_title(text, llm) ==
    IF ~IsNone(llm)
    THEN TitleCut(StripOf(StripOf(Strip(Get(llm)), {"\""}), {"'"}))
    ELSE LET words == Split(Strip(text))
             important_words ==
                 SelectSeq(words, LAMBDA w :
                     (\A i \in 1..Len(filler_words) : filler_words[i] # Lower(w))
                     \/ Len(words) <= 3)
             first == IF important_words # <<>> THEN Join(PySliceTo(important_words, 6))
                      ELSE Join(PySliceTo(words, 6))
             title == TitleCut(Join([i \in 1..Len(Split(first)) |-> Capitalize(Split(first)[i])]))
         IN  IF title # <<>> THEN title ELSE <<"N","e","w"," ","C","h","a","t">>

\* response.content of the title call
TitleReplies == { None, Some(<<" ","\"","P","S","5"," ","F","a","n"," ","N","o","i","s","e","\""," ">>) }

\* variant: the title is set when no row of the session is found
TitleUpdateWhenEmpty(session, n, text, llm, update_ok) ==
    IF update_ok /\ n = 0
    THEN [session EXCEPT !.title = Some(generate_session_title(text, llm))]
    ELSE session

\* main.py:285-310, the session row after the title update of a request with
\* text text that finds n rows of the session stored; update_ok is false when
\* the count or the update raises, which the except of line 309 swallows
TitleUpdate(session, n, text, llm, update_ok) ==
    IF update_ok /\ n = 1
    THEN [session EXCEPT !.title = Some(generate_session_title(text, llm))]
    ELSE session

\* main.py:275-348: store the user message, update the title of a session
\* whose first message this is, load and trim the history, build the initial
\* state.  A failing insert raises before the generator has yielded anything.
StartRequest ==
    /\ pc = "request"
    /\ \E insert_ok \in BOOLEAN, load_ok \in BOOLEAN, update_ok \in BOOLEAN,
          llm \in TitleReplies :
          IF insert_ok
          THEN /\ db_messages' = Append(db_messages, [role |-> "user", content |-> message])
               /\ chat_sessions' = TitleUpdate(chat_sessions, Len(db_messages'), message,
                                               llm, update_ok)
               /\ state' = initial_state(message,
                                         managed_context(db_messages', load_ok, tokenizer_ok))
               /\ pc' = "astream"
          ELSE /\ pc' = "aborted"
               /\ UNCHANGED <<db_messages, state, chat_sessions>>
    /\ UNCHANGED <<runs, _ifixit_tools, message, node, visited, final_state, events, word_i, db_usage,
                   trim_in, trim_once, trim_twice, tokenizer_ok, route_out>>

\* variant: every entry of the log is sent for each node output
StatusEventsWholeLog(before, after) ==
    [i \in 1..Len(after.tool_status) |-> Event("status", after.tool_status[i])]

\* main.py:359-363, the status events sent for one node output: its last
\* tool_status entry
StatusEvents(before, after) ==
    IF after.tool_status # <<>>
    THEN << Event("status", Last(after.tool_status)) >>
    ELSE <<>>

\* main.py:353-363 and 431-433: one round of the loop over agent_graph.astream.
\* The graph runs its next node (the entry decision picks the first one); the
\* generator then yields the status event.  An exception leaving the node
\* leaves astream and is caught at line 431, whose handler yields an error
\* event and nothing more.
AstreamStep ==
    /\ pc = "astream"
    /\ LET n == IF node = "__start__" THEN EntryTarget(route_initial_query(state)) ELSE node
       IN  \E io \in IOFor(n) :
              LET r == RunNode(n, state, io)
              IN  /\ state' = r.state
                  /\ visited' = Append(visited, n)
                  /\ IF r.raised
                     THEN /\ events' = Append(events, Event("error", << "An error occurred: {e}" >>))
                          /\ pc' = "closed"
                          /\ node' = n
                          /\ UNCHANGED final_state
                     ELSE /\ final_state' = Some(r.state)
                          /\ events' = events \o StatusEvents(state, r.state)
                          /\ node' = Successor(n, r.state)
                          /\ pc' = IF node' = "__end__" THEN "finish" ELSE "astream"
              /\ _ifixit_tools' = ToolsAfter(n, state, _ifixit_tools)
    /\ UNCHANGED <<chat_sessions, runs, message, word_i, db_messages, db_usage,
                   trim_in, trim_once, trim_twice, tokenizer_ok, route_out>>

\* final_state and final_state.get("final_response")
HasAnswer(fs) ==
    /\ ~IsNone(fs)
    /\ ~IsNone(Get(fs).final_response)
    /\ Get(Get(fs).final_response) # <<>>

\* final_response.split()
AnswerWords(fs) == Get(Get(fs).final_response)

\* main.py:365-406 and 423-426, from the end of the loop to the next yield:
\* store the answer and the usage (either insert may raise, line 431 then
\* yields an error event and nothing more), or yield the no-response error.
FinishGraph ==
    /\ pc = "finish"
    /\ IF HasAnswer(final_state)
       THEN \E answer_ok \in BOOLEAN, usage_ok \in BOOLEAN, usage_retry_ok \in BOOLEAN :
              LET stored == Append(db_messages,
                                   [role |-> "assistant", content |-> AnswerWords(final_state)])
                  input_tokens == count_tokens(message, tokenizer_ok)
                  output_tokens == Len(AnswerWords(final_state))
                  row(split) == [tokens_used |-> input_tokens + output_tokens, split |-> split]
              IN  /\ db_messages' = IF answer_ok THEN stored ELSE db_messages
                  /\ db_usage' = IF answer_ok /\ usage_ok THEN Append(db_usage, row(TRUE))
                                 ELSE IF answer_ok /\ usage_retry_ok
                                 THEN Append(db_usage, row(FALSE))
                                 ELSE db_usage
                  /\ IF answer_ok /\ (usage_ok \/ usage_retry_ok)
                     THEN /\ pc' = "words"
                          /\ UNCHANGED events
                     ELSE /\ pc' = "closed"
                          /\ events' = Append(events, Event("error", << "An error occurred: {e}" >>))
       ELSE /\ events' = Append(events, Event("error", << "Unable to generate a response." >>))
            /\ pc' = "done"
            /\ UNCHANGED <<db_messages, db_usage>>
    /\ word_i' = 0
    /\ UNCHANGED <<chat_sessions, runs, _ifixit_tools, message, state, node, visited, final_state,
                   trim_in, trim_once, trim_twice, tokenizer_ok, route_out>>

\* main.py:408-422, one round of the loop over the words: yield the text
\* accumulated so far
StreamWord ==
    /\ pc = "words"
    /\ word_i < Len(AnswerWords(final_state))
    /\ events' = Append(events, Event("response", SubSeq(AnswerWords(final_state), 1, word_i + 1)))
    /\ word_i' = word_i + 1
    /\ UNCHANGED <<chat_sessions, runs, _ifixit_tools, message, state, node, visited, pc, final_state, db_messages, db_usage,
                   trim_in, trim_once, trim_twice, tokenizer_ok, route_out>>

\* variant: the loop over the words starts over instead of ending
SendDoneRestart ==
    /\ IF pc = "words" THEN word_i = Len(AnswerWords(final_state)) ELSE pc = "done"
    /\ events' = SelectSeq(events, LAMBDA e : e.type = "status")
    /\ word_i' = 0
    /\ pc' = "words"
    /\ UNCHANGED <<chat_sessions, runs, _ifixit_tools, message, state, node, visited, final_state, db_messages, db_usage,
                   trim_in, trim_once, trim_twice, tokenizer_ok, route_out>>

\* main.py:428-429
SendDone ==
    /\ IF pc = "words" THEN word_i = Len(AnswerWords(final_state)) ELSE pc = "done"
    /\ events' = Append(events, Event("done", <<>>))
    /\ pc' = "closed"
    /\ UNCHANGED <<chat_sessions, runs, _ifixit_tools, message, state, node, visited, final_state, word_i, db_messages, db_usage,
                   trim_in, trim_once, trim_twice, tokenizer_ok, route_out>>

Next == StartRequest \/ AstreamStep \/ FinishGraph \/ StreamWord \/ SendDone

Spec == Init /\ [][Next]_vars

\* the event loop resumes the generator whenever it can take a step, and a
\* collaborator call returns or raises: weak fairness of every step.  For
\* AstreamStep, which is enabled exactly when pc = "astream" (every node has
\* an answer set to meet and every round appends to visited), weak fairness
\* is written out with that guard in the place of ENABLED.
FairSpec ==
    /\ Spec
    /\ WF_vars(StartRequest)
    /\ WF_vars(FinishGraph)
    /\ WF_vars(StreamWord)
    /\ WF_vars(SendDone)
    /\ ([]<>(pc # "astream") \/ []<><<AstreamStep>>_vars)

-----------------------------------------------------------------------------
(* The steps called directly, in the order of the graph's edges, any step
   left out: every run of the graph is among these call sequences, and so are
   the sequences that reach a step whose predecessor would have raised. *)

\* agent.py:136-152, the depth of a node along the edges
Rank(n) ==
    CASE n = "normalize_query" -> 1
      [] n = "search_device" -> 2
      [] n = "list_guides" -> 3
      [] n = "select_guide" -> 4
      [] n = "fetch_guide" -> 5
      [] n = "fallback_search" -> 5
      [] n = "format_response" -> 6
      [] n = "conversational_response" -> 6

InVisited(n) == \E i \in 1..Len(visited) : visited[i] = n

StepInit ==
    /\ message \in Queries
    /\ db_messages = <<>>
    /\ db_usage = <<>>
    /\ tokenizer_ok = TRUE
    /\ \E h \in Histories :
          state = initial_state(message,
                                trim_conversation_history(h, MAX_CONTEXT_TOKENS,
                                                          MAX_MESSAGES_TO_KEEP, TRUE))
    /\ node = "__start__"
    /\ visited = <<>>
    /\ pc = "step"
    /\ final_state = None
    /\ events = <<>>
    /\ word_i = 0
    /\ Idle

CallNode ==
    /\ pc = "step"
    /\ \E n \in NodeNames :
          /\ Rank(n) > (IF visited = <<>> THEN 0 ELSE Rank(Last(visited)))
          /\ \E io \in IOFor(n) :
                LET r == RunNode(n, state, io)
                IN  /\ state' = r.state
                    /\ visited' = Append(visited, n)
                    /\ pc' = IF r.raised THEN "raised" ELSE "step"
          /\ _ifixit_tools' = ToolsAfter(n, state, _ifixit_tools)
    /\ UNCHANGED <<chat_sessions, runs, message, node, final_state, events, word_i, db_messages, db_usage,
                   trim_in, trim_once, trim_twice, tokenizer_ok, route_out>>

NodeSpec == StepInit /\ [][CallNode]_vars

-----------------------------------------------------------------------------
(* should_use_fallback called directly on the states of its three inputs *)

DeviceChoices == { None, Some([title |-> <<"P","l","a","y","S","t","a","t","i","o","n"," ","5">>, dataType |-> "device", url |-> <<>>]) }

GuideListChoices ==
    { None, Some(<<>>), Some(<< GuideBattery >>), Some(<< GuideBattery, GuideScreen >>) }

GuideChoices == { None, Some(GuideBattery), Some(GuideScreen) }

RouteInit ==
    /\ message \in Queries
    /\ db_messages = <<>>
    /\ db_usage = <<>>
    /\ tokenizer_ok = TRUE
    /\ \E d \in DeviceChoices, l \in GuideListChoices, g \in GuideChoices :
          state = [initial_state(message, <<>>) EXCEPT
                       !.selected_device = d, !.available_guides = l, !.selected_guide = g]
    /\ node = "select_guide"
    /\ visited = <<>>
    /\ pc = "route"
    /\ final_state = None
    /\ events = <<>>
    /\ word_i = 0
    /\ Idle

\* agent.py:141-148, the decision and its successor map
EvalRoute ==
    /\ pc = "route"
    /\ route_out' = Some(MidChainTarget(should_use_fallback(state)))
    /\ pc' = "routed"
    /\ UNCHANGED <<chat_sessions, runs, _ifixit_tools, message, state, node, visited, final_state, events, word_i, db_messages,
                   db_usage, trim_in, trim_once, trim_twice, tokenizer_ok>>

RouteSpec == RouteInit /\ [][EvalRoute]_vars

-----------------------------------------------------------------------------
(* trim_conversation_history called directly, and once more on its result *)

MaxHistoryLen == 3
MaxTokenBudget == 28
MaxMessagesArg == 3

TrimMessages ==
    { [role |-> "system", content |-> <<"b","e"," ","b","r","i","e","f">>],
      [role |-> "user", content |-> <<"m","y"," ","p","s","5"," ","i","s"," ","l","o","u","d">>],
      [role |-> "assistant", content |-> <<"o","k">>],
      [role |-> "user", content |-> <<"t","h","a","n","k","s"," ","a"," ","l","o","t">>] }

RECURSIVE SeqsUpTo(_, _)
SeqsUpTo(S, n) ==
    IF n = 0 THEN { <<>> }
    ELSE SeqsUpTo(S, n - 1)
         \cup { Append(s, x) : s \in {t \in SeqsUpTo(S, n - 1) : Len(t) = n - 1}, x \in S }

TrimInit ==
    /\ message = <<>>
    /\ db_messages = <<>>
    /\ db_usage = <<>>
    /\ tokenizer_ok \in BOOLEAN
    /\ state = initial_state(<<>>, <<>>)
    /\ node = "__start__"
    /\ visited = <<>>
    /\ pc = "trim"
    /\ final_state = None
    /\ events = <<>>
    /\ word_i = 0
    /\ \E h \in SeqsUpTo(TrimMessages, MaxHistoryLen),
          t \in 0..MaxTokenBudget, m \in 0..MaxMessagesArg :
          trim_in = Some([messages |-> h, max_tokens |-> t, max_messages |-> m])
    /\ trim_once = None /\ trim_twice = None /\ route_out = None
    /\ runs = <<>> /\ _ifixit_tools = None /\ chat_sessions = NewSession

TrimFirst ==
    /\ pc = "trim"
    /\ trim_once' = Some(trim_conversation_history(Get(trim_in).messages, Get(trim_in).max_tokens,
                                                   Get(trim_in).max_messages, tokenizer_ok))
    /\ pc' = "trimmed"
    /\ UNCHANGED <<chat_sessions, runs, _ifixit_tools, message, state, node, visited, final_state, events, word_i, db_messages,
                   db_usage, trim_in, trim_twice, tokenizer_ok, route_out>>

TrimSecond ==
    /\ pc = "trimmed"
    /\ trim_twice' = Some(trim_conversation_history(Get(trim_once), Get(trim_in).max_tokens,
                                                    Get(trim_in).max_messages, tokenizer_ok))
    /\ pc' = "retrimmed"
    /\ UNCHANGED <<chat_sessions, runs, _ifixit_tools, message, state, node, visited, final_state, events, word_i, db_messages,
                   db_usage, trim_in, trim_once, tokenizer_ok, route_out>>

TrimNext == TrimFirst \/ TrimSecond

TrimSpec == TrimInit /\ [][TrimNext]_vars

-----------------------------------------------------------------------------
(* Properties *)

\* an exception left a node of the graph
GraphRaised == pc = "closed" /\ node # "__end__" /\ final_state # Some(state)

CountType(t) == Len(SelectSeq(events, LAMBDA e : e.type = t))

\* the texts of the status events sent so far
StatusTexts ==
    LET st == SelectSeq(events, LAMBDA e : e.type = "status")
    IN  [i \in 1..Len(st) |-> st[i].content]

\* C1: whatever collaborator calls fail, no step lets a failure out of the
\* graph, and a run that has reached the end of the graph has its answer set.
C1_NoFailureLeavesTheGraph ==
    /\ ~GraphRaised
    /\ node = "__end__" => ~IsNone(state.final_response)

\* C2: a finished event stream is zero or more status events, then exactly one
\* answer event or exactly one error event, then exactly one done event, last.
C2_StreamShape ==
    pc = "closed" =>
        /\ Len(events) >= 2
        /\ Last(events).type = "done"
        /\ events[Len(events) - 1].type \in {"response", "error"}
        /\ \A i \in 1..(Len(events) - 2) : events[i].type = "status"

\* the handler of main.py:431-433 has run
ExceptionCaught ==
    \E i \in 1..Len(events) :
        events[i].type = "error" /\ events[i].content = << "An error occurred: {e}" >>

\* C3: when an exception is raised in a run, the caller receives exactly one
\* error event and, after it, a done event.
C3_ErrorThenDone ==
    (pc = "closed" /\ ExceptionCaught) =>
        /\ CountType("error") = 1
        /\ Last(events).type = "done"

\* C4: between two steps, and at the end of the graph, the status events sent
\* are all the entries of tool_status, in order.
C4_EveryEntryEmitted ==
    pc \in {"astream", "finish"} => StatusTexts = state.tool_status

\* C5: when list_guides has left available_guides null or empty, select_guide
\* completes with selected_guide null and the graph goes on to fallback_search.
C5_NoGuidesReachFallback ==
    (InVisited("select_guide")
        /\ (IsNone(state.available_guides) \/ Get(state.available_guides) = <<>>)) =>
        /\ ~GraphRaised
        /\ IsNone(state.selected_guide)
        /\ node = "fallback_search" \/ InVisited("fallback_search")

\* C6: when normalize_query yields an empty device name, search_device leaves
\* selected_device null, no step fails, and the run passes fallback_search and
\* ends with an answer.
C6_NoDeviceEndsWithAnswer ==
    (InVisited("normalize_query") /\ state.ifixit_device = Some(<<>>)) =>
        /\ InVisited("search_device") => IsNone(state.selected_device)
        /\ ~GraphRaised
        /\ node = "__end__" => InVisited("fallback_search") /\ ~IsNone(state.final_response)

\* C7: the decision after select_guide leads to fallback_search iff the device,
\* a non-empty guide list or the selected guide is absent, else to fetch_guide.
C7_MidChainRouting ==
    ~IsNone(route_out) =>
        /\ Get(route_out) \in {"fallback_search", "fetch_guide"}
        /\ Get(route_out) = "fallback_search" <=>
              \/ IsNone(state.selected_device)
              \/ IsNone(state.available_guides)
              \/ Len(Get(state.available_guides)) = 0
              \/ IsNone(state.selected_guide)

C7_Witness ==
    /\ route_out = Some("fetch_guide")
    /\ ~IsNone(state.selected_device)
    /\ ~IsNone(state.available_guides)
    /\ ~IsNone(state.selected_guide)

\* C8: ifixit_device is written by normalize_query alone: once set, every
\* later step leaves it as it was.
C8_CanonicalDeviceWriteOnce ==
    [][/\ ~IsNone(state.ifixit_device) => state'.ifixit_device = state.ifixit_device
       /\ state'.ifixit_device # state.ifixit_device => Last(visited') = "normalize_query"]_vars

C8_Witness ==
    /\ state.ifixit_device = Some(<<"P","l","a","y","S","t","a","t","i","o","n"," ","5">>)
    /\ InVisited("search_device")
    /\ InVisited("fallback_search")
    /\ InVisited("format_response")

\* C9: fallback_used is false until fallback_search is entered and true ever
\* after.
C9_FallbackUsedIffVisited ==
    state.fallback_used <=> InVisited("fallback_search")

C9_Witness ==
    /\ state.fallback_used
    /\ IsNone(state.repair_steps)
    /\ InVisited("fallback_search")
    /\ InVisited("format_response")

\* C10: trimming the result of a trim again, with the same limits, returns it
\* unchanged.
C10_TrimIdempotent ==
    ~IsNone(trim_twice) => Get(trim_twice) = Get(trim_once)

\* a history with a system message after a non-system one, shortened by trim
C10_Witness ==
    /\ ~IsNone(trim_twice)
    /\ LET h == Get(trim_in).messages
       IN  /\ \E i, j \in 1..Len(h) : i < j /\ h[i].role # "system" /\ h[j].role = "system"
           /\ Len(Get(trim_once)) < Len(h)
-----------------------------------------------------------------------------
(* Properties of trim_conversation_history *)

\* the arguments and the result of the direct call
TrimArgs == Get(trim_in)
TrimResult == Get(trim_once)

\* the last k elements of s
LastK(s, k) == SubSeq(s, Len(s) - k + 1, Len(s))

Min(a, b) == IF a < b THEN a ELSE b

\* C11: for every history, every maxTokens and every maxMessages >= 0, the
\* output of trim holds at most maxMessages non-system messages.
C11_AtMostMaxMessages ==
    ~IsNone(trim_once) =>
        Len(SelectSeq(TrimResult, NotSystem)) <= TrimArgs.max_messages

\* C12: every system message of the input is in the output, unchanged and in
\* order, whatever the limits are; and system messages do not use up
\* maxMessages: when the budget is met, the output holds as many non-system
\* messages as the input has, up to maxMessages.
C12_SystemMessagesKept ==
    ~IsNone(trim_once) =>
        /\ SelectSeq(TrimResult, IsSystem) = SelectSeq(TrimArgs.messages, IsSystem)
        /\ count_message_tokens(TrimArgs.messages, tokenizer_ok) <= TrimArgs.max_tokens =>
              Len(SelectSeq(TrimResult, NotSystem)) >=
                  Min(Len(SelectSeq(TrimArgs.messages, NotSystem)), TrimArgs.max_messages)

\* a system message between two non-system ones, the limit on messages not
\* below their number, the older one dropped for the budget
C12_Witness ==
    /\ ~IsNone(trim_once)
    /\ Len(TrimArgs.messages) = 3
    /\ TrimArgs.messages[1].role = "user"
    /\ TrimArgs.messages[2].role = "system"
    /\ TrimArgs.messages[3].role = "assistant"
    /\ TrimArgs.max_messages = 2
    /\ TrimResult = << TrimArgs.messages[2], TrimArgs.messages[3] >>

\* C13: after trim the token estimate of the output is at most maxTokens or
\* at most one non-system message is left; the non-system messages kept are
\* the most recent ones, the one before them was dropped because the estimate
\* with it was over the budget, and the last one left is never dropped.
C13_BudgetTrim ==
    ~IsNone(trim_once) =>
        LET conv == SelectSeq(TrimArgs.messages, NotSystem)
            sys == SelectSeq(TrimArgs.messages, IsSystem)
            kept == SelectSeq(TrimResult, NotSystem)
        IN  /\ \/ count_message_tokens(TrimResult, tokenizer_ok) <= TrimArgs.max_tokens
               \/ Len(kept) <= 1
            /\ Len(kept) <= Len(conv)
            /\ kept = LastK(conv, Len(kept))
            /\ Len(kept) < Min(Len(conv), TrimArgs.max_messages) =>
                  count_message_tokens(sys \o LastK(conv, Len(kept) + 1), tokenizer_ok)
                      > TrimArgs.max_tokens
            /\ (conv # <<>> /\ TrimArgs.max_messages >= 1) => kept # <<>>

\* over the budget with one non-system message left, older ones dropped for it
C13_Witness ==
    /\ ~IsNone(trim_once)
    /\ Len(SelectSeq(TrimArgs.messages, NotSystem)) = 3
    /\ TrimArgs.max_messages = 3
    /\ Len(SelectSeq(TrimResult, NotSystem)) = 1
    /\ count_message_tokens(TrimResult, tokenizer_ok) > TrimArgs.max_tokens

-----------------------------------------------------------------------------
(* Properties of a run: the end of the graph and of the stream *)

C15_StreamEnds == <>(pc \in {"closed", "aborted"})

\* a stream ended by an exception raised four steps into the repair chain
C15_Witness ==
    /\ pc = "closed"
    /\ ExceptionCaught
    /\ Len(visited) = 4
    /\ Last(events).type = "error"

-----------------------------------------------------------------------------
(* route_initial_query called directly on requests and histories *)

EntryQueries ==
    { <<"h","i">>, <<"H","e","l","l","o"," ","t","h","e","r","e">>, <<" "," ","T","H","A","N","K","S"," "," ">>, <<"p","o","w","e","r"," ","s","u","p","p","l","y"," ","i","s"," ","d","e","a","d"," ","n","o","w">>,
      <<"f","a","n"," ","v","e","r","y"," ","l","o","u","d">>, <<"r","e","p","l","a","c","e"," ","s","c","r","e","e","n">>, <<"b","a","t","t","e","r","y"," ","i","s"," ","d","e","a","d">>, <<"m","y"," ","p","s","5"," ","f","a","n"," ","i","s"," ","l","o","u","d">>,
      <<"w","h","y"," ","i","s"," ","i","t"," ","l","o","u","d">>, <<"w","h","a","t"," ","t","o","o","l"," ","d","o"," ","i"," ","n","e","e","d"," ","f","o","r"," ","i","t">>, <<"t","h","e"," ","c","o","n","s","o","l","e"," ","m","a","k","e","s"," ","a"," ","l","o","u","d"," ","n","o","i","s","e">> }

EntryHistories ==
    { <<>>,
      << [role |-> "user", content |-> <<"m","y"," ","p","s","5"," ","f","a","n"," ","i","s"," ","l","o","u","d">>],
         [role |-> "assistant", content |-> LongAnswer] >>,
      << [role |-> "user", content |-> <<"m","y"," ","p","s","5"," ","f","a","n"," ","i","s"," ","l","o","u","d">>],
         [role |-> "assistant", content |-> <<"o","k">>] >>,
      << [role |-> "assistant", content |-> LongAnswer] >>,
      << [role |-> "user", content |-> LongAnswer] >>,
      << [role |-> "user", content |-> <<"m","y"," ","p","s","5"," ","f","a","n"," ","i","s"," ","l","o","u","d">>],
         [role |-> "assistant", content |-> LongAnswer],
         [role |-> "user", content |-> <<"t","h","a","n","k","s">>],
         [role |-> "assistant", content |-> <<"o","k">>] >> }

EntryInit ==
    /\ message \in EntryQueries
    /\ db_messages = <<>>
    /\ db_usage = <<>>
    /\ tokenizer_ok = TRUE
    /\ \E h \in EntryHistories : state = initial_state(message, h)
    /\ node = "__start__"
    /\ visited = <<>>
    /\ pc = "entry"
    /\ final_state = None
    /\ events = <<>>
    /\ word_i = 0
    /\ Idle

\* agent.py:126-133, the entry decision and its successor map
EvalEntry ==
    /\ pc = "entry"
    /\ route_out' = Some(EntryTarget(route_initial_query(state)))
    /\ pc' = "entered"
    /\ UNCHANGED <<chat_sessions, runs, _ifixit_tools, message, state, node, visited, final_state, events, word_i, db_messages,
                   db_usage, trim_in, trim_once, trim_twice, tokenizer_ok>>

EntrySpec == EntryInit /\ [][EvalEntry]_vars

-----------------------------------------------------------------------------
(* Properties of the steps *)

\* C17: for the request "hi" with empty history the conversational step is
\* the only step run, and its answer is the introductory greeting followed by
\* the repair-prompt suggestion, whether or not text generation succeeds.
C17_GreetingAnswer ==
    (message = <<"h","i">> /\ state.messages = <<>> /\ visited # <<>>) =>
        /\ visited = << "conversational_response" >>
        /\ state.final_response =
              Some(<< "{response_text}",
                      "**Ready to help!** Tell me about the device you need to repair" >>)

\* variant: the request text is sent along with the device name
SearchDevicesArgWithQuery(s) ==
    IF IsNone(s.ifixit_device) \/ s.ifixit_device = Some(<<>>) THEN None
    ELSE Some(Get(s.ifixit_device) \o <<" ">> \o s.query)

\* search_device.py:33-41, the argument of ifixit.search_devices; None when
\* the call is not made
SearchDevicesArg(s) ==
    IF IsNone(s.ifixit_device) \/ s.ifixit_device = Some(<<>>) THEN None
    ELSE Some(Get(s.ifixit_device))

\* list_guides.py:34-60, the argument of ifixit.list_guides; None when the
\* call is not made
ListGuidesArg(s) ==
    IF IsNone(s.selected_device) THEN None
    ELSE IF Get(s.selected_device).title = <<>> THEN None
    ELSE Some(CleanTitle(Get(s.selected_device).title, invalid_suffixes))

\* C18: the device search receives exactly ifixit_device, and the arguments of
\* the device search and of the guide listing are the same in two runs that
\* differ in the request text only: they are what the steps pass on, whatever
\* the catalog answers.  Stated where the calls are made: after
\* normalize_query and after search_device.
C18_CatalogQueriesFromDevice ==
    (pc = "step" /\ InVisited("normalize_query")
        /\ Last(visited) \in {"normalize_query", "search_device"}) =>
        /\ SearchDevicesArg(state) =
              (IF state.ifixit_device = Some(<<>>) THEN None ELSE state.ifixit_device)
        /\ \A resp \in DeviceSearchResponses :
              search_device_node(state, resp).state.selected_device =
                  (IF IsNone(SearchDevicesArg(state)) THEN None
                   ELSE Some(search_devices(Get(SearchDevicesArg(state)), resp).devices[1]))
        /\ \A cat \in CategoryResponses, search \in GuideSearchResponses :
              ~IsNone(ListGuidesArg(state)) =>
                  list_guides_node(state, cat, search).state.available_guides =
                      (LET result == list_guides(Get(ListGuidesArg(state)), cat, search)
                       IN  IF IsNone(result) THEN None ELSE Some(Get(result).guides))
        /\ \A other \in Queries :
              LET twin == [state EXCEPT !.query = other]
              IN  /\ SearchDevicesArg(twin) = SearchDevicesArg(state)
                  /\ ListGuidesArg(twin) = ListGuidesArg(state)
                  /\ \A resp \in DeviceSearchResponses :
                        ListGuidesArg(search_device_node(twin, resp).state) =
                            ListGuidesArg(search_device_node(state, resp).state)

\* the guide listing is about to be asked for the device name of a request
\* with symptoms
C18_Witness ==
    /\ pc = "step"
    /\ visited # <<>>
    /\ InVisited("normalize_query")
    /\ Last(visited) = "search_device"
    /\ state.query = <<"m","y"," ","p","s","5"," ","f","a","n"," ","i","s"," ","l","o","u","d">>
    /\ state.ifixit_device = Some(<<"P","l","a","y","S","t","a","t","i","o","n"," ","5">>)
    /\ SearchDevicesArg(state) = Some(<<"P","l","a","y","S","t","a","t","i","o","n"," ","5">>)
    /\ ListGuidesArg(state) = Some(<<"P","l","a","y","S","t","a","t","i","o","n"," ","5">>)

\* the catalog gave no usable device: the call raised, the status was not 200,
\* or every one of the first ten results was skipped
NoUsableDevice(resp) ==
    \/ IsNone(resp)
    \/ Get(resp).status # 200
    \/ \A i \in 1..Min(Len(Get(resp).results), 10) : IsGuideLike(Get(resp).results[i])

C20_FetchFailureApology ==
    (InVisited("fetch_guide") /\ IsNone(state.repair_steps)) =>
        /\ ~GraphRaised
        /\ ~state.fallback_used
        /\ node \in {"format_response", "__end__"}
        /\ node = "__end__" =>
              /\ Last(visited) = "format_response"
              /\ state.final_response =
                    Some(<< "**I couldn't find a repair guide for this request.**",
                            "Please provide:",
                            "I'm ready to help once I have more details!",
                            "**Need more help?**" >>)

\* the apology has been streamed after a failed guide call
C20_Witness ==
    /\ pc = "closed"
    /\ InVisited("fetch_guide")
    /\ IsNone(state.repair_steps)
    /\ node = "__end__"
    /\ Last(events).type = "done"

-----------------------------------------------------------------------------
(* Properties of fallback_search *)

\* the tool_status entries a step appended
Appended(before, after) ==
    SubSeq(after.tool_status, Len(before.tool_status) + 1, Len(after.tool_status))

InSeq(x, s) == \E i \in 1..Len(s) : s[i] = x

\* fallback_search.py:48-51, the entry appended right before tavily.search
TavilyCalled(entries) == InSeq(<<"S","e","a","r","c","h","i","n","g"," ","w","i","t","h"," ","T","a","v","i","l","y"," ","A","I",".",".",".">>, entries)

\* fallback_search.py:87-89, the entry appended right before ddgs.text
DuckDuckGoCalled(entries) == InSeq(<<"T","r","y","i","n","g"," ","D","u","c","k","D","u","c","k","G","o"," ","s","e","a","r","c","h",".",".",".">>, entries)

\* C21: fallback_search asks the first provider when it is configured, and
\* the second one exactly when the first is not configured, fails or yields
\* nothing; repair_steps.source names the provider whose results are stored,
\* and repair_steps is null when neither gave results.
C21_ProviderPriority ==
    /\ (pc = "step" /\ visited # <<>> /\ Last(visited) \in {"list_guides", "select_guide"}) =>
          \A k \in BOOLEAN, t \in TavilyResponses, d \in DdgResponses :
              LET r == fallback_search_node(state, k, t, d)
                  entries == Appended(state, r.state)
                  primary_ok == k /\ ~IsNone(t) /\ Get(t) # <<>>
                  secondary_ok == ~IsNone(d) /\ Get(d) # <<>>
              IN  /\ ~r.raised
                  /\ TavilyCalled(entries) <=> k
                  /\ DuckDuckGoCalled(entries) <=> ~primary_ok
                  /\ primary_ok =>
                        r.state.repair_steps =
                            Some([source |-> "tavily", results |-> TavilyResults(Get(t))])
                  /\ (~primary_ok /\ secondary_ok) =>
                        r.state.repair_steps =
                            Some([source |-> "duckduckgo", results |-> Get(d)])
                  /\ (~primary_ok /\ ~secondary_ok) => IsNone(r.state.repair_steps)
    /\ (visited # <<>> /\ Last(visited) = "fallback_search" /\ ~IsNone(state.repair_steps)) =>
          /\ Get(state.repair_steps).source \in {"tavily", "duckduckgo"}
          /\ Get(state.repair_steps).source = "tavily" => ~DuckDuckGoCalled(state.tool_status)
          /\ Get(state.repair_steps).source = "duckduckgo" => DuckDuckGoCalled(state.tool_status)

\* the first provider was asked and gave nothing, the second one's results are stored
C21_Witness ==
    /\ visited # <<>>
    /\ Last(visited) = "fallback_search"
    /\ TavilyCalled(state.tool_status)
    /\ DuckDuckGoCalled(state.tool_status)
    /\ ~IsNone(state.repair_steps)
    /\ Get(state.repair_steps).source = "duckduckgo"

\* fetch_guide.py:36 and fallback_search.py:68-71, 95-98: the payload kinds of
\* repair_steps
IsFallbackPayload(payload) == "source" \in DOMAIN payload
IsGuidePayload(payload) == "guideid" \in DOMAIN payload

\* C22: a run never executes both fetch_guide and fallback_search; a catalog
\* guide in repair_steps comes from fetch_guide with fallback_used false, a
\* fallback payload from fallback_search with fallback_used true.  Either
\* step applied after select_guide writes its own kind of payload only.
C22_OneProducer ==
    /\ ~(InVisited("fetch_guide") /\ InVisited("fallback_search"))
    /\ ~IsNone(state.repair_steps) =>
          /\ IsGuidePayload(Get(state.repair_steps)) =>
                ~state.fallback_used /\ InVisited("fetch_guide")
          /\ IsFallbackPayload(Get(state.repair_steps)) =>
                state.fallback_used /\ InVisited("fallback_search")
          /\ IsGuidePayload(Get(state.repair_steps)) # IsFallbackPayload(Get(state.repair_steps))
    /\ (pc = "astream" /\ visited # <<>> /\ Last(visited) = "select_guide") =>
          /\ \A k \in BOOLEAN, t \in TavilyResponses, d \in DdgResponses :
                LET after == fallback_search_node(state, k, t, d).state
                IN  /\ after.fallback_used
                    /\ ~IsNone(after.repair_steps) => IsFallbackPayload(Get(after.repair_steps))
          /\ \A g \in GuideResponses :
                LET after == fetch_guide_node(state, g).state
                IN  /\ ~after.fallback_used
                    /\ ~IsNone(after.repair_steps) => IsGuidePayload(Get(after.repair_steps))

\* fetch_guide has stored a guide and the run has ended
C22_Witness ==
    /\ node = "__end__"
    /\ InVisited("fetch_guide")
    /\ ~IsNone(state.repair_steps)
    /\ IsGuidePayload(Get(state.repair_steps))
    /\ ~state.fallback_used

-----------------------------------------------------------------------------
(* Properties of the event stream and of the order of the steps *)

\* sub can be obtained from s by deleting entries: each entry of sub is matched
\* with the first unused entry of s that equals it
RECURSIVE IsSubsequence(_, _)
IsSubsequence(sub, s) ==
    IF sub = <<>> THEN TRUE
    ELSE IF s = <<>> THEN FALSE
    ELSE IF Head(sub) = Head(s) THEN IsSubsequence(Tail(sub), Tail(s))
    ELSE IsSubsequence(sub, Tail(s))

\* C24: the status texts sent to the caller are, in order, entries of
\* tool_status with no entry sent twice; no status event follows an answer or
\* error event; events already sent are never changed or reordered.
C24_StatusInLogOrder ==
    /\ [](/\ IsSubsequence(StatusTexts, state.tool_status)
          /\ \A i \in 1..Len(events) : \A j \in (i + 1)..Len(events) :
                events[i].type # "status" => events[j].type # "status")
    /\ [][/\ Len(events') >= Len(events)
          /\ SubSeq(events', 1, Len(events)) = events]_vars

\* three steps have reported and the answer has been streamed
C24_Witness ==
    /\ pc = "closed"
    /\ CountType("status") >= 3
    /\ CountType("response") >= 1
    /\ Len(StatusTexts) < Len(state.tool_status)

\* agent.py:136-151, the repair chain through the producer chosen after
\* select_guide
RepairChain(producer) ==
    << "normalize_query", "search_device", "list_guides", "select_guide",
       producer, "format_response" >>

IsPrefix(p, s) == Len(p) <= Len(s) /\ p = SubSeq(s, 1, Len(p))

\* C25: the steps invoked in a run are a prefix of the repair chain through
\* one producer (or the conversational step alone), so each step runs at most
\* once and after its predecessor; steps are invoked one at a time; the
\* producer is chosen by the decision on the state select_guide returned.
C25_ChainOrder ==
    /\ [](/\ \/ IsPrefix(visited, RepairChain("fetch_guide"))
             \/ IsPrefix(visited, RepairChain("fallback_search"))
             \/ IsPrefix(visited, << "conversational_response" >>)
          /\ (pc = "astream" /\ node \in {"fetch_guide", "fallback_search"}) =>
                /\ Last(visited) = "select_guide"
                /\ final_state = Some(state)
                /\ node = MidChainTarget(should_use_fallback(state)))
    /\ [][\/ visited' = visited
          \/ /\ Len(visited') = Len(visited) + 1
             /\ SubSeq(visited', 1, Len(visited)) = visited
             /\ pc = "astream"]_vars

\* the whole repair chain has run
C25_Witness ==
    /\ node = "__end__"
    /\ visited = RepairChain("fetch_guide")

\* C26: the results fallback_search stores in repair_steps are at most three,
\* each with the fields title, href and body.
C26_AtMostThreeUniform ==
    (visited # <<>> /\ Last(visited) = "fallback_search" /\ ~IsNone(state.repair_steps)) =>
        LET results == Get(state.repair_steps).results
        IN  /\ Len(results) <= 3
            /\ \A i \in 1..Len(results) : DOMAIN results[i] = {"title", "href", "body"}

-----------------------------------------------------------------------------
(* Properties of search_device, format_response and conversational_response *)

\* C28: when the catalog answers with results of which at least one has no
\* skip word in its title, search_device stores the first such result, in
\* catalog order; the stored catalog result never has a skip word in its title.
C28_FirstSurvivor ==
    (pc = "step" /\ visited # <<>> /\ Last(visited) = "normalize_query"
        /\ ~IsNone(SearchDevicesArg(state))) =>
        \A resp \in DeviceSearchResponses :
            (~IsNone(resp) /\ Get(resp).status = 200) =>
                LET survivors == SelectSeq(Get(resp).results, IsDeviceLike)
                    after == search_device_node(state, resp).state
                IN  survivors # <<>> =>
                        /\ after.selected_device = Some(survivors[1])
                        /\ ~AnyIn(skip_words, Lower(Get(after.selected_device).title))

\* format_response.py:85-90
ClosingLines ==
    { "I'm here if you have any questions about these steps!",
      "Feel free to ask if you need clarification on any step.",
      "Let me know if you'd like more details!",
      "Don't hesitate to ask if something isn't clear." }

\* format_response.py:139 and 182, 118, 202: the headings that open the three
\* body sections
HasGuideSection(pieces) ==
    InSeq("# {title}", pieces) /\ InSeq("## Step-by-Step Instructions", pieces)
HasCommunitySection(pieces) == InSeq("## Community Resources", pieces)
HasApologySection(pieces) ==
    InSeq("**I couldn't find a repair guide for this request.**", pieces)
HasClosing(pieces) == \E i \in 1..Len(pieces) : pieces[i] \in ClosingLines

\* C29: format_response sets a non-empty final_response holding exactly one
\* body section: the guide section iff repair_steps is set and fallback_used is
\* false, the community section iff repair_steps is set and fallback_used is
\* true, the apology iff repair_steps is null; the closing line is there iff
\* the guide section is.
C29_OneBodySection ==
    (pc = "step" /\ visited # <<>> /\ Last(visited) = "format_response") =>
        /\ ~IsNone(state.final_response)
        /\ Get(state.final_response) # <<>>
        /\ LET pieces == Get(state.final_response)
               guide == HasGuideSection(pieces)
               community == HasCommunitySection(pieces)
               apology == HasApologySection(pieces)
           IN  /\ guide <=> (~IsNone(state.repair_steps) /\ ~state.fallback_used)
               /\ community <=> (~IsNone(state.repair_steps) /\ state.fallback_used)
               /\ apology <=> IsNone(state.repair_steps)
               /\ Cardinality({b \in {<<1, guide>>, <<2, community>>, <<3, apology>>} : b[2]}) = 1
               /\ HasClosing(pieces) <=> guide

\* the community section has been written, without the closing line
C29_Witness ==
    /\ pc = "step"
    /\ visited # <<>>
    /\ Last(visited) = "format_response"
    /\ state.fallback_used
    /\ ~IsNone(state.repair_steps)
    /\ HasCommunitySection(Get(state.final_response))
    /\ ~HasClosing(Get(state.final_response))

\* C30: conversational_response returns with final_response set for every
\* outcome of text generation, the canned apology when the key is missing or
\* the call fails; a run that enters it runs no other step and ends there.
C30_ConversationalTerminal ==
    /\ InVisited("conversational_response") =>
          /\ visited = << "conversational_response" >>
          /\ ~GraphRaised
          /\ node = "__end__"
          /\ ~IsNone(state.final_response)
          /\ Get(state.final_response) # <<>>
    /\ (pc = "astream" /\ node = "__start__"
          /\ EntryTarget(route_initial_query(state)) = "conversational_response") =>
          \A k \in BOOLEAN, l \in ChatReplies :
              LET r == conversational_response_node(state, k, l)
              IN  /\ ~r.raised
                  /\ ~IsNone(r.state.final_response)
                  /\ (~k \/ IsNone(l)) => r.state.final_response = Some(CannedApology)
                  /\ Successor("conversational_response", r.state) = "__end__"

\* text generation failed and the canned apology has been streamed
C30_Witness ==
    /\ pc = "closed"
    /\ visited = << "conversational_response" >>
    /\ state.final_response = Some(CannedApology)
    /\ events # <<>>
    /\ Last(events).type = "done"

-----------------------------------------------------------------------------
(* select_guide_node called directly on requests and guide lists *)

MaxGuides == 3

GuideBatteryRemoval == RawGuide(4, <<"B","a","t","t","e","r","y"," ","R","e","m","o","v","a","l">>, <<"B","a","t","t","e","r","y">>)

\* entries of available_guides as list_guides stores them
SelectGuides ==
    { cleanup_guides_list(<< g >>)[1] :
        g \in {GuideBattery, GuideScreen, GuideFan, GuideBatteryRemoval} }

SelectQueries ==
    { <<"b","a","t","t","e","r","y"," ","i","s"," ","d","e","a","d">>, <<"m","y"," ","p","s","5"," ","f","a","n"," ","i","s"," ","l","o","u","d">>, <<"r","e","p","l","a","c","e"," ","s","c","r","e","e","n"," ","a","n","d"," ","b","a","t","t","e","r","y">>,
      <<"B","A","T","T","E","R","Y"," ","b","a","t","t","e","r","y">>, <<"h","i">> }

SelectInit ==
    /\ message \in SelectQueries
    /\ db_messages = <<>>
    /\ db_usage = <<>>
    /\ tokenizer_ok = TRUE
    /\ \E l \in SeqsUpTo(SelectGuides, MaxGuides) :
          state = [initial_state(message, <<>>) EXCEPT !.available_guides = Some(l)]
    /\ node = "select_guide"
    /\ visited = <<>>
    /\ pc = "select"
    /\ final_state = None
    /\ events = <<>>
    /\ word_i = 0
    /\ Idle

\* agent.py:120, the node function applied to the state
EvalSelect ==
    /\ pc = "select"
    /\ LET r == select_guide_node(state)
       IN  /\ state' = r.state
           /\ pc' = IF r.raised THEN "raised" ELSE "selected"
    /\ visited' = << "select_guide" >>
    /\ UNCHANGED <<chat_sessions, runs, _ifixit_tools, message, node, final_state, events, word_i, db_messages, db_usage,
                   trim_in, trim_once, trim_twice, tokenizer_ok, route_out>>

SelectSpec == SelectInit /\ [][EvalSelect]_vars

\* C27: with 2 points for each request word of more than 3 characters that
\* occurs in the guide's title and 1 point for each that occurs in its
\* subject, select_guide stores the first guide of the highest score; the
\* first guide when every score is 0; null when the list is empty.
C27_HighestScoreFirstWins ==
    pc = "selected" =>
        LET guides == Get(state.available_guides)
            tokens == Split(Lower(state.query))
            long == {i \in 1..Len(tokens) : Len(tokens[i]) > 3}
            Points(g) == 2 * Cardinality({i \in long : Contains(tokens[i], Lower(g.title))})
                         + Cardinality({i \in long : Contains(tokens[i], Lower(g.subject))})
            top == {k \in 1..Len(guides) :
                      \A j \in 1..Len(guides) : Points(guides[j]) <= Points(guides[k])}
        IN  /\ guides = <<>> => IsNone(state.selected_guide)
            /\ guides # <<>> =>
                  /\ \E k \in top :
                        /\ \A j \in top : k <= j
                        /\ state.selected_guide = Some(guides[k])
                  /\ (\A j \in 1..Len(guides) : Points(guides[j]) = 0) =>
                        state.selected_guide = Some(guides[1])

\* two different guides share the highest score and the first one is stored
C27_Witness ==
    /\ pc = "selected"
    /\ state.query = <<"r","e","p","l","a","c","e"," ","s","c","r","e","e","n"," ","a","n","d"," ","b","a","t","t","e","r","y">>
    /\ Len(Get(state.available_guides)) = 3
    /\ Get(state.available_guides)[1].guideid = 3
    /\ Get(state.available_guides)[2].guideid = 2
    /\ Get(state.available_guides)[3].guideid = 1
    /\ state.selected_guide = Some(Get(state.available_guides)[2])

-----------------------------------------------------------------------------
(* Two requests served by one process: each call of stream_agent_response
   builds its own AgentState (main.py:334-348) and hands it to the shared
   compiled graph; the coroutines interleave at their awaits, that is between
   and inside the collaborator calls of the nodes.  A node acts on its run's
   state only, so a round of a run is one step. *)

RunIds == {1, 2}

PairQueries == { <<"h","i">>, <<"b","a","t","t","e","r","y"," ","i","s"," ","d","e","a","d">> }

\* the collaborator answers node n can meet
PairIOFor(n) ==
    CASE n = "conversational_response" -> {[NoIO EXCEPT !.llm = l] : l \in ChatReplies}
      [] n = "normalize_query" -> {[NoIO EXCEPT !.llm = l] : l \in {None, Some(<<" ","P","l","a","y","S","t","a","t","i","o","n"," ","5","\n">>)}}
      [] n = "search_device" ->
            {[NoIO EXCEPT !.devices = d] :
                d \in {None, Some([status |-> 200, results |-> << RawDevice(<<"P","l","a","y","S","t","a","t","i","o","n"," ","5">>) >>])}}
      [] n = "list_guides" ->
            {[NoIO EXCEPT !.cat = c] :
                c \in {Some([status |-> 404, guides |-> <<>>]),
                       Some([status |-> 200, guides |-> << GuideBattery, GuideScreen >>])}}
      [] n = "fetch_guide" -> {[NoIO EXCEPT !.guide = g] : g \in GuideResponses}
      [] n = "fallback_search" ->
            {[NoIO EXCEPT !.tavily_key = k, !.ddg = d] : k \in BOOLEAN, d \in DdgResponses}
      [] OTHER -> {NoIO}

\* a request that has not arrived
NoRun ==
    [pc |-> "idle", query |-> <<>>, history |-> <<>>, state |-> initial_state(<<>>, <<>>),
     node |-> "__start__", visited |-> <<>>, answers |-> <<>>, failed_before |-> FALSE]

PairInit ==
    /\ message = <<>>
    /\ db_messages = <<>>
    /\ db_usage = <<>>
    /\ tokenizer_ok = TRUE
    /\ state = initial_state(<<>>, <<>>)
    /\ node = "__start__"
    /\ visited = <<>>
    /\ pc = "pair"
    /\ final_state = None
    /\ events = <<>>
    /\ word_i = 0
    /\ trim_in = None /\ trim_once = None /\ trim_twice = None /\ route_out = None
    /\ runs = [r \in RunIds |-> NoRun]
    /\ _ifixit_tools = None
    /\ chat_sessions = NewSession

\* main.py:334-348, request r arrives; failed_before records whether a run of
\* the process had ended by an exception by then
RunStart(r) ==
    /\ pc = "pair"
    /\ runs[r].pc = "idle"
    /\ \E q \in PairQueries, h \in Histories :
          runs' = [runs EXCEPT ![r] =
                      [pc |-> "astream", query |-> q, history |-> h,
                       state |-> initial_state(q, h), node |-> "__start__",
                       visited |-> <<>>, answers |-> <<>>,
                       failed_before |-> \E o \in RunIds : runs[o].pc = "raised"]]
    /\ UNCHANGED <<chat_sessions, _ifixit_tools, message, state, node, visited, pc, final_state, events,
                   word_i, db_messages, db_usage, trim_in, trim_once, trim_twice,
                   tokenizer_ok, route_out>>

\* variant: every run is handed the state dict of the first request
SharedState(rs, r) == rs[1].state

\* main.py:334 and 353, the state dict astream threads through the nodes of run r
OwnState(rs, r) == rs[r].state

\* main.py:353, one round of astream for run r; answers keeps what the
\* collaborators answered to each node of the run
RunStep(r) ==
    /\ pc = "pair"
    /\ runs[r].pc = "astream"
    /\ LET s == OwnState(runs, r)
           n == IF runs[r].node = "__start__" THEN EntryTarget(route_initial_query(s))
                ELSE runs[r].node
       IN  /\ \E io \in PairIOFor(n) :
                LET out == RunNode(n, s, io)
                    next == IF out.raised THEN n ELSE Successor(n, out.state)
                IN  runs' = [runs EXCEPT ![r] =
                                [@ EXCEPT !.state = out.state,
                                          !.visited = Append(@, n),
                                          !.answers = Append(@, io),
                                          !.node = next,
                                          !.pc = IF out.raised THEN "raised"
                                                 ELSE IF next = "__end__" THEN "ended"
                                                 ELSE "astream"]]
           /\ _ifixit_tools' = ToolsAfter(n, s, _ifixit_tools)
    /\ UNCHANGED <<chat_sessions, message, state, node, visited, pc, final_state, events,
                   word_i, db_messages, db_usage, trim_in, trim_once, trim_twice,
                   tokenizer_ok, route_out>>

PairNext == \E r \in RunIds : RunStart(r) \/ RunStep(r)

PairSpec == PairInit /\ [][PairNext]_vars

\* the run of the graph alone on state s from node n, the collaborators
\* answering answers[1], answers[2], ... in turn
RECURSIVE RunAlone(_, _, _)
RunAlone(s, n, answers) ==
    IF answers = <<>> THEN [state |-> s, node |-> n, raised |-> FALSE]
    ELSE LET m == IF n = "__start__" THEN EntryTarget(route_initial_query(s)) ELSE n
             out == RunNode(m, s, Head(answers))
         IN  IF out.raised THEN [state |-> out.state, node |-> m, raised |-> TRUE]
             ELSE RunAlone(out.state, Successor(m, out.state), Tail(answers))

\* C23: whatever the interleaving of two runs, and whether or not a run
\* failed before the other started, the state, position and outcome of each
\* run are those of the same request run alone with the same collaborator
\* answers; a step of one run changes nothing of the other; the shared catalog
\* wrapper holds nothing of a request.
C23_RunsIsolated ==
    /\ [](/\ \A r \in RunIds :
                runs[r].pc # "idle" =>
                    LET alone == RunAlone(initial_state(runs[r].query, runs[r].history),
                                          "__start__", runs[r].answers)
                    IN  /\ runs[r].state = alone.state
                        /\ runs[r].node = alone.node
                        /\ (runs[r].pc = "raised") = alone.raised
          /\ _ifixit_tools \in {None, Some(IFixitToolsInstance)})
    /\ [][\A r \in RunIds : runs'[r] # runs[r] =>
              \A o \in RunIds \ {r} : runs'[o] = runs[o]]_vars

\* the second request ended by an exception while the first one was being
\* served, and the first one has since run its whole chain to its answer
C23_Witness ==
    /\ pc = "pair"
    /\ runs[2].pc = "raised"
    /\ ~runs[2].failed_before
    /\ ~runs[1].failed_before
    /\ runs[1].pc = "ended"
    /\ Len(runs[1].visited) = 6
    /\ ~IsNone(runs[1].state.final_response)

-----------------------------------------------------------------------------
(* Frame properties of the steps and of the routing functions *)

\* C31: a step leaves the entries tool_status held before it in place and in
\* order and appends at least one entry, on every branch: early returns,
\* failure branches and exceptions included.
C31_LogAppendOnly ==
    [][visited' # visited =>
          /\ IsPrefix(state.tool_status, state'.tool_status)
          /\ Len(state'.tool_status) > Len(state.tool_status)]_vars

\* list_guides has returned early after two other steps wrote to the log
C31_Witness ==
    /\ pc = "step"
    /\ visited = << "normalize_query", "search_device", "list_guides" >>
    /\ Len(state.tool_status) >= 4
    /\ Last(state.tool_status) = <<"N","o"," ","d","e","v","i","c","e"," ","s","e","l","e","c","t","e","d">>

\* C32: query and messages keep the values of the initial state: query is
\* the request text and no step changes either field.
C32_InputsUnchanged ==
    /\ [](pc \in {"step", "raised"} => state.query = message)
    /\ [][/\ state'.query = state.query
          /\ state'.messages = state.messages]_vars

\* the conversational step has read a stored history and answered
C32_Witness ==
    /\ pc = "step"
    /\ visited = << "conversational_response" >>
    /\ Len(state.messages) = 2
    /\ state.query = message
    /\ ~IsNone(state.final_response)

\* agent.py:126-148, both decisions called directly: on the states of
\* RouteInit the decision after select_guide, on those of EntryInit the entry
\* decision
DecideInit == RouteInit \/ EntryInit

DecideNext == EvalRoute \/ EvalEntry

DecideSpec == DecideInit /\ [][DecideNext]_vars

\* C33: a routing decision leaves the state as it is; the entry decision
\* answers "conversational" or "normalize" and is mapped to one of its two
\* nodes, the decision after select_guide answers "fallback" or "format" and is
\* mapped to one of its two nodes; each answers the same for a state that
\* differs only in fields it does not read.
C33_DecisionsPure ==
    /\ [](/\ should_use_fallback(state) \in {"fallback", "format"}
          /\ pc = "routed" =>
                /\ Get(route_out) \in {"fallback_search", "fetch_guide"}
                /\ Get(route_out) = MidChainTarget(should_use_fallback(state))
          /\ pc \in {"route", "routed"} =>
                \A q \in Queries, h \in Histories, f \in BOOLEAN, g \in GuideResponses :
                    should_use_fallback(
                        [state EXCEPT !.query = q, !.messages = h, !.fallback_used = f,
                                      !.repair_steps = g, !.tool_status = << q >>,
                                      !.ifixit_device = Some(q), !.final_response = g])
                        = should_use_fallback(state)
          /\ pc = "entered" =>
                /\ Get(route_out) \in {"conversational_response", "normalize_query"}
                /\ Get(route_out) = EntryTarget(route_initial_query(state))
          /\ pc \in {"entry", "entered"} =>
                /\ route_initial_query(state) \in {"conversational", "normalize"}
                /\ \A d \in DeviceChoices, l \in {None, Some(<< GuideBattery >>)} :
                      route_initial_query(
                          [state EXCEPT !.selected_device = d, !.available_guides = l,
                                        !.selected_guide = l, !.fallback_used = TRUE,
                                        !.ifixit_device = Some(state.query),
                                        !.tool_status = << state.query >>])
                          = route_initial_query(state))
    /\ [][state' = state]_vars

\* the decision after select_guide has sent a marked-complete state to fetch_guide
C33_Witness ==
    /\ pc = "routed"
    /\ route_out = Some("fetch_guide")
    /\ ~IsNone(state.selected_device)
    /\ ~IsNone(state.selected_guide)

\* C36: fetch_guide is called only on a state whose selected_guide is set
\* and is one of the entries of available_guides, and its read of
\* selected_guide["guideid"] never raises.
C36_FetchOnChosenGuide ==
    /\ ((pc = "astream" /\ node = "fetch_guide") \/ InVisited("fetch_guide")) =>
          /\ ~IsNone(state.selected_guide)
          /\ ~IsNone(state.available_guides)
          /\ InSeq(Get(state.selected_guide), Get(state.available_guides))
    /\ (visited # <<>> /\ Last(visited) = "fetch_guide") => pc # "closed"

\* fetch_guide has run on the guide select_guide chose and stored its steps
C36_Witness ==
    /\ pc = "astream"
    /\ node = "format_response"
    /\ Last(visited) = "fetch_guide"
    /\ ~IsNone(state.selected_guide)
    /\ ~IsNone(state.repair_steps)

\* k is what is left of c when a number of its first elements are removed
IsSuffixOf(k, c) ==
    \E d \in 0..Len(c) :
        /\ Len(k) = Len(c) - d
        /\ \A i \in 1..Len(k) : k[i] = c[d + i]

\* C39: the non-system messages of the output of trim are the most recent
\* non-system messages of its input, in their order, with none left out
\* between them: none is kept while a more recent one is dropped.
C39_RecentSuffixKept ==
    /\ ~IsNone(trim_once) =>
          IsSuffixOf(SelectSeq(Get(trim_once), NotSystem),
                     SelectSeq(Get(trim_in).messages, NotSystem))
    /\ ~IsNone(trim_twice) =>
          IsSuffixOf(SelectSeq(Get(trim_twice), NotSystem),
                     SelectSeq(Get(trim_once), NotSystem))

\* three different turns around a system message, the oldest dropped by the
\* limit on messages
C39_Witness ==
    /\ pc = "trimmed"
    /\ Get(trim_in).max_messages = 2
    /\ Len(Get(trim_in).messages) = 3
    /\ Get(trim_in).messages[1].role = "user"
    /\ Get(trim_in).messages[2].role = "assistant"
    /\ Get(trim_in).messages[3].role = "user"
    /\ Get(trim_in).messages[1] # Get(trim_in).messages[3]
    /\ Get(trim_once) = << Get(trim_in).messages[2], Get(trim_in).messages[3] >>

\* the assistant rows the run has stored; the rows of the session before the
\* request hold LongAnswer only
StoredAnswers ==
    SelectSeq(db_messages, LAMBDA m : m.role = "assistant" /\ m.content # LongAnswer)

\* the caller has been sent the whole answer
ReceivedAnswer ==
    /\ HasAnswer(final_state)
    /\ \E i \in 1..Len(events) :
          events[i].type = "response" /\ events[i].content = AnswerWords(final_state)

\* C38: a run stores at most one assistant message; when its stream has
\* ended, it has stored one exactly if the caller was sent the answer; a run
\* whose stream carries an error event has stored none.
C38_StoreAgreesWithStream ==
    /\ Len(StoredAnswers) <= 1
    /\ pc = "closed" => (Len(StoredAnswers) = 1 <=> ReceivedAnswer)
    /\ CountType("error") > 0 => StoredAnswers = <<>>

-----------------------------------------------------------------------------
(* app/core/context.py, prepare_context_for_agent and its helpers *)

\* context.py:74, the default of threshold_messages
THRESHOLD_MESSAGES == 30

\* context.py:145, the number of trimmed messages over which a summary is added
SIGNIFICANT_TRIM == 10

\* context.py:74-86
should_summarize(messages) ==
    Len(SelectSeq(messages, NotSystem)) > THRESHOLD_MESSAGES

IsUser(msg) == msg.role = "user"

\* context.py:111
common_devices ==
    << <<"p","s","5">>, <<"p","l","a","y","s","t","a","t","i","o","n">>, <<"x","b","o","x">>, <<"i","p","h","o","n","e">>, <<"m","a","c","b","o","o","k">>, <<"l","a","p","t","o","p">>, <<"p","h","o","n","e">> >>

\* context.py:110-117, the set devices_mentioned
devices_mentioned(messages) ==
    LET user_messages == SelectSeq(messages, IsUser)
    IN  { common_devices[d] : d \in
            { d \in 1..Len(common_devices) :
                \E i \in 1..Len(user_messages) :
                    Contains(common_devices[d], Lower(user_messages[i].content)) } }

\* the orders in which iterating over a set of strings can yield its elements
IterationOrders(S) ==
    { o \in SeqsUpTo(S, Cardinality(S)) :
        Len(o) = Cardinality(S) /\ { o[i] : i \in 1..Len(o) } = S }

\* sep.join(texts)
RECURSIVE JoinWith(_, _)
JoinWith(texts, sep) ==
    IF texts = <<>> THEN <<>>
    ELSE IF Len(texts) = 1 THEN texts[1]
    ELSE texts[1] \o sep \o JoinWith(Tail(texts), sep)

\* context.py:89-122; order: the order in which ', '.join iterates over
\* devices_mentioned
create_context_summary(messages, order) ==
    LET user_messages == SelectSeq(messages, IsUser)
    IN  IF user_messages = <<>> THEN <<"N","o"," ","p","r","e","v","i","o","u","s"," ","c","o","n","v","e","r","s","a","t","i","o","n"," ","c","o","n","t","e","x","t",".">>
        ELSE <<"P","r","e","v","i","o","u","s"," ","c","o","n","v","e","r","s","a","t","i","o","n"," ","s","u","m","m","a","r","y",":"," ","U","s","e","r"," ","a","s","k","e","d"," ">> \o ToStr(Len(user_messages))
             \o <<" ","q","u","e","s","t","i","o","n","s">>
             \o (IF order # <<>> THEN <<" ","a","b","o","u","t",":"," ">> \o JoinWith(order, <<","," ">>) ELSE <<>>)
             \o <<".">>

\* context.py:142
TrimmedHistory(conversation_history, tok_ok) ==
    trim_conversation_history(conversation_history, MAX_CONTEXT_TOKENS,
                              MAX_MESSAGES_TO_KEEP, tok_ok)

\* context.py:146-147, conversation_history[:trimmed_count]
older_messages(conversation_history, tok_ok) ==
    SubSeq(conversation_history, 1,
           Len(conversation_history) - Len(TrimmedHistory(conversation_history, tok_ok)))

SummaryPrefix == <<"[","C","o","n","t","e","x","t"," ","S","u","m","m","a","r","y","]"," ">>

\* context.py:125-167
prepare_context_for_agent(current_query, conversation_history, include_summary, tok_ok, order) ==
    LET trimmed_history == TrimmedHistory(conversation_history, tok_ok)
        summary_msg ==
            [role |-> "system",
             content |-> SummaryPrefix
                         \o create_context_summary(older_messages(conversation_history, tok_ok),
                                                   order)]
        with_summary ==
            IF include_summary
               /\ Len(conversation_history) > Len(trimmed_history) + SIGNIFICANT_TRIM
            THEN SelectSeq(trimmed_history, IsSystem) \o << summary_msg >>
                 \o SelectSeq(trimmed_history, NotSystem)
            ELSE trimmed_history
    IN  Append(with_summary, [role |-> "user", content |-> current_query])

-----------------------------------------------------------------------------
(* prepare_context_for_agent called directly on drawn histories *)

MaxPrepLen == 63

\* the turns at which the user names a second device; 0: never
PrepKeywordAt == {0, 3, 13}

\* a history of nsys system messages followed by n turns, user first
PrepHistory(n, nsys, kw) ==
    [i \in 1..nsys |-> [role |-> "system", content |-> <<"b","e"," ","b","r","i","e","f">>]]
    \o [i \in 1..n |->
          IF i % 2 = 0 THEN [role |-> "assistant", content |-> <<"o","k">>]
          ELSE [role |-> "user",
                content |-> IF i = kw THEN <<"m","y"," ","P","S","5"," ","i","s"," ","l","o","u","d">>
                            ELSE IF i = 1 THEN <<"x","b","o","x"," ","f","a","n">> ELSE <<"a","n","d"," ","n","o","w">>]]

PrepInit ==
    /\ message = <<>>
    /\ db_messages = <<>>
    /\ db_usage = <<>>
    /\ tokenizer_ok \in BOOLEAN
    /\ state = initial_state(<<>>, <<>>)
    /\ node = "__start__"
    /\ visited = <<>>
    /\ pc = "prepare"
    /\ final_state = None
    /\ events = <<>>
    /\ word_i = 0
    /\ \E n \in 0..MaxPrepLen, nsys \in 0..1, kw \in PrepKeywordAt, b \in BOOLEAN :
          trim_in = Some([messages |-> PrepHistory(n, nsys, kw),
                          current_query |-> <<"w","h","a","t"," ","n","e","x","t">>,
                          include_summary |-> b])
    /\ trim_once = None /\ trim_twice = None /\ route_out = None
    /\ runs = <<>> /\ _ifixit_tools = None /\ chat_sessions = NewSession

PrepareContext ==
    /\ pc = "prepare"
    /\ \E order \in IterationOrders(
                       devices_mentioned(older_messages(Get(trim_in).messages, tokenizer_ok))) :
          trim_once' = Some(prepare_context_for_agent(Get(trim_in).current_query,
                                                      Get(trim_in).messages,
                                                      Get(trim_in).include_summary,
                                                      tokenizer_ok, order))
    /\ pc' = "prepared"
    /\ UNCHANGED <<chat_sessions, runs, _ifixit_tools, message, state, node, visited, final_state, events, word_i, db_messages,
                   db_usage, trim_in, trim_twice, tokenizer_ok, route_out>>

PrepNext == PrepareContext

PrepSpec == PrepInit /\ [][PrepNext]_vars

\* the positions of the summary message in a prepared context
SummaryAt(context) ==
    { i \in 1..Len(context) :
        IsSystem(context[i]) /\ IsPrefix(SummaryPrefix, context[i].content) }

\* the non-system messages of a history that trimming does not retain
Dropped(conversation_history, tok_ok) ==
    LET conv == SelectSeq(conversation_history, NotSystem)
        kept == SelectSeq(TrimmedHistory(conversation_history, tok_ok), NotSystem)
    IN  SubSeq(conv, 1, Len(conv) - Len(kept))

\* C34: a summary message is in the prepared context only when the history
\* has more non-system messages than the summarization threshold and trimming
\* removed more than ten messages; its text is the summary of the messages
\* that trimming dropped, and it stands ahead of every retained non-system
\* message.
C34_SummaryFromDropped ==
    pc = "prepared" =>
        LET history == Get(trim_in).messages
            context == Get(trim_once)
            dropped == Dropped(history, tokenizer_ok)
        IN  \A i \in SummaryAt(context) :
                /\ should_summarize(history)
                /\ Len(dropped) > SIGNIFICANT_TRIM
                /\ \E order \in IterationOrders(devices_mentioned(dropped)) :
                      context[i].content = SummaryPrefix \o create_context_summary(dropped, order)
                /\ \A j \in 1..Len(context) : NotSystem(context[j]) => i < j

-----------------------------------------------------------------------------
(* list_guides_node called directly on drawn device titles *)

MaxTitleWords == 4

TitleWords == { <<"P","S","5">>, <<"R","e","p","a","i","r">>, <<"K","i","t">> }

\* selected_device as search_device stores it for a search without device
\* results: the title is the normalized device name
SyntheticDevice(title) == [title |-> title, dataType |-> "synthetic", url |-> <<>>]

ListInit ==
    /\ message = <<"m","y"," ","p","s","5"," ","f","a","n"," ","i","s"," ","l","o","u","d">>
    /\ db_messages = <<>>
    /\ db_usage = <<>>
    /\ tokenizer_ok = TRUE
    /\ \E w \in SeqsUpTo(TitleWords, MaxTitleWords) :
          state = [initial_state(message, <<>>) EXCEPT
                       !.ifixit_device = Some(Join(w)),
                       !.selected_device = Some(SyntheticDevice(Join(w)))]
    /\ node = "list_guides"
    /\ visited = <<>>
    /\ pc = "list"
    /\ final_state = None
    /\ events = <<>>
    /\ word_i = 0
    /\ trim_in = None /\ trim_once = None /\ trim_twice = None /\ route_out = None
    /\ runs = <<>> /\ _ifixit_tools = None /\ chat_sessions = NewSession

EvalList ==
    /\ pc = "list"
    /\ \E cat \in CategoryResponses, search \in GuideSearchResponses :
          LET r == list_guides_node(state, cat, search)
          IN  /\ state' = r.state
              /\ pc' = IF r.raised THEN "raised" ELSE "listed"
    /\ visited' = << "list_guides" >>
    /\ _ifixit_tools' = ToolsAfter("list_guides", state, _ifixit_tools)
    /\ UNCHANGED <<chat_sessions, runs, message, node, final_state, events, word_i, db_messages, db_usage,
                   trim_in, trim_once, trim_twice, tokenizer_ok, route_out>>

ListSpec == ListInit /\ [][EvalList]_vars

\* title with each suffix of the list, taken in order, cut from its end
RECURSIVE CutTrailing(_, _)
CutTrailing(title, suffixes) ==
    IF suffixes = <<>> THEN title
    ELSE CutTrailing(IF EndsWith(title, Head(suffixes))
                     THEN SubSeq(title, 1, Len(title) - Len(Head(suffixes)))
                     ELSE title,
                     Tail(suffixes))

\* C35: the title list_guides sends to the catalog is the title of the
\* selected device with the guide-type suffix cut from its end; the same
\* words elsewhere in the title stay.
C35_TrailingSuffixOnly ==
    (pc = "listed" /\ ~IsNone(ListGuidesArg(state))) =>
        Get(ListGuidesArg(state))
            = CutTrailing(Get(state.selected_device).title, invalid_suffixes)

-----------------------------------------------------------------------------
(* Two requests to one session, served by one process.  chat_stream and the
   async generator stream_agent_response run on the event loop of the process
   (main.py:437, 472-473, 511-512) and the store client is synchronous
   (database.py:8-14), so a request that has started keeps the loop from the
   insert of its message (line 277) to its first await, inside astream (line
   353); another request runs only while it is suspended there, at a yield or
   in asyncio.sleep. *)

\* the text of each request
SessionQueries == << <<"b","a","t","t","e","r","y"," ","i","s"," ","d","e","a","d">>, <<"h","i">> >>

\* a request that has not arrived.  own: the id of its user row; before: the
\* rows stored when that row was inserted; loaded: the rows its history was
\* built from
NoRequest ==
    [pc |-> "idle", query |-> <<>>, own |-> 0, before |-> <<>>, loaded |-> <<>>,
     handed |-> FALSE, load_ok |-> FALSE, title_failed |-> FALSE, set_title |-> FALSE,
     state |-> initial_state(<<>>, <<>>), node |-> "__start__", visited |-> <<>>]

SessionInit ==
    /\ message = <<>>
    /\ db_messages = <<>>
    /\ db_usage = <<>>
    /\ tokenizer_ok = TRUE
    /\ state = initial_state(<<>>, <<>>)
    /\ node = "__start__"
    /\ visited = <<>>
    /\ pc = "session"
    /\ final_state = None
    /\ events = <<>>
    /\ word_i = 0
    /\ trim_in = None /\ trim_once = None /\ trim_twice = None /\ route_out = None
    /\ runs = [r \in RunIds |-> NoRequest]
    /\ _ifixit_tools = None
    /\ chat_sessions = NewSession

\* variant: every store call is awaited, as with an asynchronous client
AtAwaitEverywhere(p) == TRUE

\* main.py:275-353, a request at position p is suspended: it has not started,
\* waits in astream, at a yield or in sleep, or has ended.  At "count" and
\* "load" it is between two synchronous store calls.
AtAwait(p) == p \notin {"count", "load"}

\* the event loop is free for request r
LoopFree(rs, r) == \A o \in RunIds \ {r} : AtAwait(rs[o].pc)

\* main.py:277-283, a row of the messages table; uuid4 and utcnow at the insert
MessageRow(rows, role, content) ==
    [id |-> Len(rows) + 1, role |-> role, content |-> content, created_at |-> Len(rows) + 1]

\* main.py:313-317, .order("created_at")
OrderByCreatedAt(rows) == SortSeq(rows, LAMBDA a, b : a.created_at < b.created_at)

\* main.py:315 and 320-321, .select("role,content")
RoleContent(rows) ==
    [i \in 1..Len(rows) |-> [role |-> rows[i].role, content |-> rows[i].content]]

\* main.py:437-473, the request reaches chat_stream, which hands the
\* generator to the streaming response
Arrive(r) ==
    /\ pc = "session"
    /\ runs[r].pc = "idle"
    /\ LoopFree(runs, r)
    /\ runs' = [runs EXCEPT ![r] = [@ EXCEPT !.pc = "insert", !.query = SessionQueries[r]]]
    /\ UNCHANGED <<chat_sessions, _ifixit_tools, message, state, node, visited, pc, final_state,
                   events, word_i, db_messages, db_usage, trim_in, trim_once, trim_twice,
                   tokenizer_ok, route_out>>

\* main.py:275-283
InsertUser(r) ==
    /\ pc = "session"
    /\ runs[r].pc = "insert"
    /\ LoopFree(runs, r)
    /\ \E insert_ok \in BOOLEAN :
          IF insert_ok
          THEN /\ db_messages' = Append(db_messages,
                                        MessageRow(db_messages, "user", runs[r].query))
               /\ runs' = [runs EXCEPT ![r] =
                               [@ EXCEPT !.pc = "count", !.own = Len(db_messages) + 1,
                                         !.before = db_messages]]
          ELSE /\ runs' = [runs EXCEPT ![r] = [@ EXCEPT !.pc = "aborted"]]
               /\ UNCHANGED db_messages
    /\ UNCHANGED <<chat_sessions, _ifixit_tools, message, state, node, visited, pc, final_state,
                   events, word_i, db_usage, trim_in, trim_once, trim_twice,
                   tokenizer_ok, route_out>>

\* main.py:285-310
CountAndTitle(r) ==
    /\ pc = "session"
    /\ runs[r].pc = "count"
    /\ LoopFree(runs, r)
    /\ \E update_ok \in BOOLEAN :
          /\ chat_sessions' = TitleUpdate(chat_sessions, Len(db_messages), runs[r].query,
                                          None, update_ok)
          /\ runs' = [runs EXCEPT ![r] =
                          [@ EXCEPT !.pc = "load", !.title_failed = ~update_ok,
                                    !.set_title = chat_sessions' # chat_sessions]]
    /\ UNCHANGED <<_ifixit_tools, message, state, node, visited, pc, final_state,
                   events, word_i, db_messages, db_usage, trim_in, trim_once, trim_twice,
                   tokenizer_ok, route_out>>

\* main.py:312-348
LoadHistory(r) ==
    /\ pc = "session"
    /\ runs[r].pc = "load"
    /\ LoopFree(runs, r)
    /\ \E load_ok \in BOOLEAN :
          LET data == OrderByCreatedAt(db_messages)
              history == managed_context(RoleContent(data), load_ok, tokenizer_ok)
          IN  runs' = [runs EXCEPT ![r] =
                          [@ EXCEPT !.pc = "astream", !.handed = TRUE, !.load_ok = load_ok,
                                    !.loaded = IF load_ok THEN PySliceTo(data, Len(data) - 1)
                                               ELSE <<>>,
                                    !.state = initial_state(runs[r].query, history)]]
    /\ UNCHANGED <<chat_sessions, _ifixit_tools, message, state, node, visited, pc, final_state,
                   events, word_i, db_messages, db_usage, trim_in, trim_once, trim_twice,
                   tokenizer_ok, route_out>>

\* main.py:353-363, one round of astream for request r; an exception leaving
\* the node is caught at line 431 and ends the stream
GraphStep(r) ==
    /\ pc = "session"
    /\ runs[r].pc = "astream"
    /\ LoopFree(runs, r)
    /\ LET s == runs[r].state
           n == IF runs[r].node = "__start__" THEN EntryTarget(route_initial_query(s))
                ELSE runs[r].node
       IN  /\ \E io \in PairIOFor(n) :
                LET out == RunNode(n, s, io)
                    next == IF out.raised THEN n ELSE Successor(n, out.state)
                IN  runs' = [runs EXCEPT ![r] =
                                [@ EXCEPT !.state = out.state,
                                          !.visited = Append(@, n),
                                          !.node = next,
                                          !.pc = IF out.raised THEN "closed"
                                                 ELSE IF next = "__end__" THEN "finish"
                                                 ELSE "astream"]]
           /\ _ifixit_tools' = ToolsAfter(n, s, _ifixit_tools)
    /\ UNCHANGED <<chat_sessions, message, state, node, visited, pc, final_state, events,
                   word_i, db_messages, db_usage, trim_in, trim_once, trim_twice,
                   tokenizer_ok, route_out>>

\* main.py:365-406 and 423-426, from the end of astream to the next yield
Finish(r) ==
    /\ pc = "session"
    /\ runs[r].pc = "finish"
    /\ LoopFree(runs, r)
    /\ IF HasAnswer(Some(runs[r].state))
       THEN \E answer_ok \in BOOLEAN, usage_ok \in BOOLEAN, usage_retry_ok \in BOOLEAN :
              LET answer == Get(runs[r].state.final_response)
                  tokens == count_tokens(runs[r].query, tokenizer_ok) + Len(answer)
              IN  /\ db_messages' = IF answer_ok
                                    THEN Append(db_messages,
                                                MessageRow(db_messages, "assistant", answer))
                                    ELSE db_messages
                  /\ db_usage' = IF answer_ok /\ usage_ok
                                 THEN Append(db_usage, [tokens_used |-> tokens, split |-> TRUE])
                                 ELSE IF answer_ok /\ usage_retry_ok
                                 THEN Append(db_usage, [tokens_used |-> tokens, split |-> FALSE])
                                 ELSE db_usage
                  /\ runs' = [runs EXCEPT ![r] =
                                  [@ EXCEPT !.pc = IF answer_ok /\ (usage_ok \/ usage_retry_ok)
                                                   THEN "words" ELSE "closed"]]
       ELSE /\ runs' = [runs EXCEPT ![r] = [@ EXCEPT !.pc = "words"]]
            /\ UNCHANGED <<db_messages, db_usage>>
    /\ UNCHANGED <<chat_sessions, _ifixit_tools, message, state, node, visited, pc, final_state,
                   events, word_i, trim_in, trim_once, trim_twice, tokenizer_ok, route_out>>

\* main.py:408-429, the words and the done event have been sent
EndStream(r) ==
    /\ pc = "session"
    /\ runs[r].pc = "words"
    /\ LoopFree(runs, r)
    /\ runs' = [runs EXCEPT ![r] = [@ EXCEPT !.pc = "closed"]]
    /\ UNCHANGED <<chat_sessions, _ifixit_tools, message, state, node, visited, pc, final_state,
                   events, word_i, db_messages, db_usage, trim_in, trim_once, trim_twice,
                   tokenizer_ok, route_out>>

SessionNext ==
    \E r \in RunIds :
        \/ Arrive(r) \/ InsertUser(r) \/ CountAndTitle(r) \/ LoadHistory(r)
        \/ GraphStep(r) \/ Finish(r) \/ EndStream(r)

SessionSpec == SessionInit /\ [][SessionNext]_vars

\* the ids of rows
RowIds(rows) == { rows[i].id : i \in 1..Len(rows) }

\* C37, as stated: whatever the interleaving, the history handed to the graph
\* of a request holds every message stored before the request's own user
\* message, and not that message.
C37_HistoryBeforeOwn ==
    \A r \in RunIds :
        runs[r].handed =>
            /\ IsSubsequence(RoleContent(runs[r].before), runs[r].state.messages)
            /\ runs[r].own \notin RowIds(runs[r].loaded)

\* C37, amended: whatever the interleaving, a request whose history select
\* succeeds is handed the trimmed list of exactly the messages stored before
\* its own user message, one whose select fails is handed the empty list, and
\* its own message is never among the rows its history is built from.
C37_HistoryBeforeOwnLoaded ==
    \A r \in RunIds :
        runs[r].handed =>
            /\ runs[r].state.messages =
                  IF runs[r].load_ok
                  THEN TrimmedHistory(RoleContent(runs[r].before), tokenizer_ok)
                  ELSE <<>>
            /\ runs[r].own \notin RowIds(runs[r].loaded)

\* the second request stored its message and loaded its history while the
\* first one was suspended in its graph; the first one has since stored its
\* answer
C37_Witness ==
    /\ pc = "session"
    /\ runs[1].own = 1
    /\ runs[2].own = 2
    /\ runs[2].handed /\ runs[2].load_ok
    /\ runs[2].state.messages = << [role |-> "user", content |-> SessionQueries[1]] >>
    /\ runs[1].pc = "closed"
    /\ Len(db_messages) = 3
    /\ db_messages[3].role = "assistant"

\* C40: in a session without messages, whatever the interleaving of two
\* requests, once a request is past the title update and no title update has
\* failed, one of the requests has set the title of the session.
C40_FirstRequestSetsTitle ==
    ((\E r \in RunIds : runs[r].pc \notin {"idle", "insert", "count", "aborted"})
        /\ \A r \in RunIds : ~runs[r].title_failed) =>
        /\ \E r \in RunIds : runs[r].set_title
        /\ ~IsNone(chat_sessions.title)

\* the second request arrived while the first one was suspended in its graph
\* and found two rows; the title is the one the first request set
C40_Witness ==
    /\ pc = "session"
    /\ runs[1].set_title
    /\ ~runs[2].set_title /\ ~runs[2].title_failed
    /\ runs[2].pc = "astream"
    /\ runs[1].pc = "astream"
    /\ runs[1].visited # <<>>
    /\ chat_sessions.title = Some(<<"B","a","t","t","e","r","y"," ","I","s"," ","D","e","a","d">>)

====
